---------------------------- MODULE Spec2Model ----------------------------
(***************************************************************************)
(* Signature-derived key encryption of "DM the DEV".                       *)
(*                                                                         *)
(* Byte strings are modelled symbolically: a signature, a hash, a key, a   *)
(* nonce or a ciphertext is a string or a record that names how it was     *)
(* computed, so two byte strings are equal exactly when they were computed *)
(* the same way (hashes and signatures do not collide, random draws do not *)
(* repeat).                                                                *)
(* tweetnacl's box/secretbox, @noble/hashes' sha512, bs58 and              *)
(* tweetnacl-util's base64 are modelled by what they do to such byte       *)
(* strings, length checks included.                                        *)
(***************************************************************************)
EXTENDS Integers, Sequences, FiniteSets, TLC

VARIABLES
    now,            \* Date.now(), the wall clock
    rngCount,       \* values drawn so far from nacl.randomBytes / box.keyPair()
    keypairs,       \* what the calls of a key derivation returned, in order
    sent,           \* what the calls of encryptMessage returned
    lastDecrypt,    \* the decryptMessage call whose outcome the caller holds:
                    \* a set of at most one call record
    publicKey,      \* page.tsx: address of the connected wallet, "" when none
    deployerInfo,   \* page.tsx: the deployer found for the token
    recipientKey,   \* page.tsx: the key messages are encrypted for
    isDerivedKeyReady,
    derivedInPage,  \* page.tsx: the derivedKeypair values handleDeriveRecipientKey
                    \* has computed in the visitor's browser
    messages,       \* the rows of the Supabase table "messages"
    plaintext,      \* the message whose bytes were encrypted
    payload,        \* the decrypted bytes a decoder is handed
    decoded,        \* what the decoders made of payload: a set of decoder calls
    recipientKeys,  \* the rows of the Supabase table of derived keys
    keyDerivation,  \* KeyDerivation.tsx: the component's state and the run of
                    \* deriveAndStoreKey under way
    events,         \* what the runs of deriveAndStoreKey did, in order
    decrypting,     \* the DecryptedMessage components: what each waits for
    sendLog,        \* what the last send operation looked up, encrypted and
                    \* stored: a set of at most one record
    lastUpload,     \* the uploadMessage call that settled last: a set of at
                    \* most one record
    lastFetch,      \* the fetchMessagesForDeployer call that settled last: a
                    \* set of at most one record
    inFlight,       \* page.tsx: isLoading, and the calls of
                    \* handleDeriveRecipientKey that wait at an await, each
                    \* with the deployer address it read
    sending,        \* page.tsx: isSending and the run of sendMessage under way
    shown,          \* a DecryptedMessage component: its props, its state and
                    \* the calls of decryptMessage it waits for
    loading,        \* page.tsx: the messages shown and the fetches of the
                    \* loadMessages effect that have not answered
    supabase        \* supabase.ts: supabaseInstance and the environment

moduleVars == <<now, rngCount, keypairs, sent, lastDecrypt>>
pageVars ==
    <<publicKey, deployerInfo, recipientKey, isDerivedKeyReady, derivedInPage,
      messages>>
codecVars == <<plaintext, payload, decoded>>
componentVars == <<recipientKeys, keyDerivation, events, decrypting, sendLog>>
clientVars ==
    <<lastUpload, lastFetch, inFlight, sending, shown, loading, supabase>>
vars == <<moduleVars, pageVars, codecVars, componentVars, clientVars>>

---------------------------------------------------------------------------
(* Bounds of the model *)

MaxTime == 3
MaxRandom == 5
MaxSalt == 2
MaxDerives == 2
MaxTextLength == 2
MaxBinaryLength == 64
MaxRuns == 2
MaxMounted == 2

(* Sizes fixed by the libraries *)

nonceLength == 24
publicKeyLength == 32
secretKeyLength == 32
signSecretKeyLength == 64
overheadLength == 16
\* an Ed25519 signature, and the shortest signature part_007 accepts
signatureLength == 64
minSignatureLength == 32

Addrs == {"A1", "A2"}
\* the wallet of A2 signs with a randomized scheme: its signature bytes differ per call
Randomized == {"A2"}
Messages == {"hello", "{}", ""}
NoTime == 0 - 1

---------------------------------------------------------------------------
(* Strings the wallet signs *)

\* `${prefix}${addr}`, and a Date.now() where the template has one
ChallengeText(prefix, addr, ts) ==
    prefix \o addr \o (IF ts = NoTime THEN "" ELSE "\nTimestamp: " \o ToString(ts))

\* new TextEncoder().encode(s): the UTF-8 bytes of s
TextEncoder_encode(s) == "utf8'" \o s \o "'"

(* Signatures *)

NoSig == ""

\* wallet.signMessage(bytes): an Ed25519 signature by the wallet's own key. A
\* wallet may refuse; a randomized signer mixes fresh randomness (salt) in.
\* Only the wallet of wallet.addr produces "sign[addr](...)".
signMessage(wallet, bytes) ==
    LET signed == "sign[" \o wallet.addr \o "]("  \o bytes
                      \o (IF wallet.addr \in Randomized
                          THEN ", random " \o ToString(wallet.salt) ELSE "")
                      \o ")"
    IN  IF wallet.fixedSignature # NoSig
        THEN \* a mock whose signMessage ignores its argument
             [ok |-> TRUE, sig |-> wallet.fixedSignature,
              len |-> wallet.signatureLength]
        ELSE IF wallet.rejects
        THEN [ok |-> FALSE, sig |-> NoSig, len |-> 0]
        ELSE IF wallet.signatureLength = 0
        THEN \* a signer that answers with no bytes at all
             [ok |-> TRUE, sig |-> NoSig, len |-> 0]
        ELSE IF wallet.signatureLength < signatureLength
        THEN [ok |-> TRUE,
              sig |-> "(" \o signed \o ")[0.." \o ToString(wallet.signatureLength)
                         \o ")",
              len |-> wallet.signatureLength]
        ELSE [ok |-> TRUE, sig |-> signed, len |-> signatureLength]

\* sha512(x).slice(0, 32)
sha512_32(bytes) == "sha512(" \o bytes \o ")[0..31]"

(* Curve25519 scalars and keys: a scalar is named by the 32 bytes it is read from *)

RandScalar(n) == "random " \o ToString(n)

NoKey == [alg |-> "none", half |-> "none", of |-> "", len |-> 0]

\* nacl.box.keyPair.fromSecretKey(sk): the X25519 key pair of a 32-byte secret
box_keyPair_fromSecretKey(scalar) ==
    [publicKey |-> [alg |-> "x25519", half |-> "public", of |-> scalar,
                    len |-> publicKeyLength],
     secretKey |-> [alg |-> "x25519", half |-> "secret", of |-> scalar,
                    len |-> secretKeyLength]]

\* nacl.sign.keyPair.fromSeed(seed): the Ed25519 key pair of a 32-byte seed; its
\* secretKey is the 64 bytes seed || publicKey
sign_keyPair_fromSeed(seed) ==
    [publicKey |-> [alg |-> "ed25519", half |-> "public", of |-> seed,
                    len |-> publicKeyLength],
     secretKey |-> [alg |-> "ed25519", half |-> "secret", of |-> seed,
                    len |-> signSecretKeyLength]]

\* nacl.box.keyPair(): a fresh key pair from the n-th random draw
box_keyPair(n) == box_keyPair_fromSecretKey(RandScalar(n))

\* The scalar s with X25519(s, base) = the 32 bytes of pk. For an X25519 public
\* key it is the secret it was made from; the bytes of an Ed25519 public key
\* (or of a damaged key) read as a Montgomery point have a logarithm nobody holds.
PointLog(pk) ==
    IF pk.alg = "x25519" /\ pk.half = "public"
    THEN pk.of
    ELSE "log of " \o pk.alg \o " " \o pk.half \o " key of " \o pk.of

NoShared == [dh |-> {}]

\* nacl.box.before(theirPublicKey, mySecretKey): checks both lengths, then X25519
box_before(theirPublicKey, mySecretKey) ==
    IF theirPublicKey.len # publicKeyLength
    THEN [ok |-> FALSE, err |-> "bad public key size", key |-> NoShared]
    ELSE IF mySecretKey.len # secretKeyLength
    THEN [ok |-> FALSE, err |-> "bad secret key size", key |-> NoShared]
    ELSE [ok |-> TRUE, err |-> "",
          key |-> [dh |-> {PointLog(theirPublicKey), mySecretKey.of}]]

---------------------------------------------------------------------------
(* Byte strings that are encrypted and decrypted *)

\* JSON.stringify({v: 2, data: message}) as UTF-8: 17 bytes of syntax and the text
VersionedJson(message) == [fmt |-> "json-v2", data |-> message]
LegacyText(message) == [fmt |-> "text", data |-> message]

jsonSyntaxLength == 17
frameHeaderLength == 5

BodyLength(body) ==
    Len(body.data) + (CASE body.fmt = "json-v2" -> jsonSyntaxLength
                        [] body.fmt = "framed-v1" -> frameHeaderLength
                        [] OTHER -> 0)

\* a byte string: a body under zero or more secretbox layers, outermost first;
\* len is its length in bytes, flip marks a layer whose bytes were altered
PlainBytes(body) == [layers |-> <<>>, body |-> body, len |-> BodyLength(body)]

EmptyBytes == [layers |-> <<>>, body |-> LegacyText(""), len |-> 0]

Nonce(n) == [id |-> n, len |-> nonceLength]
EmptyNonce == [id |-> 0, len |-> 0]

\* nacl.secretbox(msg, nonce, key) = nacl.box.after: XSalsa20-Poly1305, 16 bytes
\* longer than msg; throws on a nonce that is not 24 bytes
secretbox(msg, nonce, key) ==
    IF nonce.len # nonceLength
    THEN [ok |-> FALSE, err |-> "bad nonce size", bytes |-> EmptyBytes]
    ELSE [ok |-> TRUE, err |-> "",
          bytes |-> [layers |-> <<[key |-> key, nonce |-> nonce.id, flip |-> FALSE]>>
                                  \o msg.layers,
                     body |-> msg.body,
                     len |-> msg.len + overheadLength]]

\* the length a well-formed secretbox output with these layers has
SealedLength(box) == BodyLength(box.body) + overheadLength * Len(box.layers)

\* nacl.secretbox.open(box, nonce, key) = nacl.box.open.after: throws on a bad
\* nonce size, returns null for a box shorter than the tag or failing the
\* Poly1305 check, else the bytes that were sealed
secretbox_open(box, nonce, key) ==
    IF nonce.len # nonceLength
    THEN [status |-> "throw", err |-> "bad nonce size", bytes |-> EmptyBytes]
    ELSE IF box.len < overheadLength
    THEN [status |-> "null", err |-> "", bytes |-> EmptyBytes]
    ELSE IF /\ box.layers # <<>>
            /\ box.len = SealedLength(box)
            /\ Head(box.layers) = [key |-> key, nonce |-> nonce.id, flip |-> FALSE]
    THEN [status |-> "bytes", err |-> "",
          bytes |-> [layers |-> Tail(box.layers), body |-> box.body,
                     len |-> box.len - overheadLength]]
    ELSE [status |-> "null", err |-> "", bytes |-> EmptyBytes]

(* Text encodings of byte strings *)

\* bs58.encode / bs58.decode
toBase58(bytes) == [b58 |-> bytes]
fromBase58(str) == str.b58

\* the empty string where a base58 key is expected
EmptyBase58 == toBase58(NoKey)

\* tweetnacl-util encodeBase64: padded base64 text of the bytes. A text is
\* wellFormed when it is groups of four base64 characters, the last one padded
\* with = where needed; multipleOf4 says that its length is a multiple of 4.
toBase64(bytes) == [b64 |-> bytes, wellFormed |-> TRUE, multipleOf4 |-> TRUE]

\* tweetnacl-util decodeBase64: throws TypeError on text that is not base64
fromBase64(str) ==
    IF str.wellFormed
    THEN [ok |-> TRUE, err |-> "", bytes |-> str.b64]
    ELSE [ok |-> FALSE, err |-> "invalid encoding", bytes |-> str.b64]

\* !str of JavaScript: the empty string encodes no bytes
IsEmptyString(str) == str.wellFormed /\ str.b64.len = 0

NoEnvelope ==
    [ciphertext |-> toBase64(EmptyBytes), nonce |-> toBase64(EmptyNonce),
     ephemeralPublicKey |-> toBase64(NoKey)]

---------------------------------------------------------------------------
(* src/utils/encryption.ts, the version in use *)

\* validateEncryptedData(data) of lines 96-125: what it throws ("" when it
\* returns); every throw is rethrown as "Invalid encrypted data: ..."
validateEncryptedData(data) ==
    LET ciphertext == fromBase64(data.ciphertext)
        nonce == fromBase64(data.nonce)
        ephemeralPublicKey == fromBase64(data.ephemeralPublicKey)
        thrown ==
            IF \/ IsEmptyString(data.ciphertext) \/ IsEmptyString(data.nonce)
               \/ IsEmptyString(data.ephemeralPublicKey)
            THEN "Missing required encryption fields"
            ELSE IF ~ciphertext.ok THEN "Invalid base64 in ciphertext"
            ELSE IF ~nonce.ok THEN "Invalid base64 in nonce"
            ELSE IF ~ephemeralPublicKey.ok THEN "Invalid base64 in ephemeralPublicKey"
            ELSE IF nonce.bytes.len # nonceLength THEN "Invalid nonce length"
            ELSE IF ephemeralPublicKey.bytes.len # publicKeyLength
            THEN "Invalid public key length"
            ELSE IF ciphertext.bytes.len = 0 THEN "Empty ciphertext"
            ELSE ""
    IN  IF thrown = "" THEN "" ELSE "Invalid encrypted data: " \o thrown

DeriveChallenge(addr) == ChallengeText("DM_DEV_DERIVE_KEY:", addr, NoTime)

NoKeypair == [publicKey |-> NoKey, secretKey |-> NoKey]

\* deriveKeypairFromWallet with Date.now() hashed into the seed next to the
\* signature
deriveKeypairFromWallet_timeInSeed(wallet) ==
    LET messageToSign == TextEncoder_encode(DeriveChallenge(wallet.addr))
        signedMessage == signMessage(wallet, messageToSign)
    IN  IF ~wallet.hasPublicKey \/ ~wallet.hasSignMessage \/ ~signedMessage.ok
        THEN [ok |-> FALSE, err |-> "Wallet does not support required methods",
              keypair |-> NoKeypair, signs |-> <<>>, sig |-> NoSig]
        ELSE [ok |-> TRUE, err |-> "",
              keypair |-> sign_keyPair_fromSeed(
                              sha512_32(signedMessage.sig \o ToString(now))),
              signs |-> <<messageToSign>>, sig |-> signedMessage.sig]

\* deriveKeypairFromWallet(wallet): signs the fixed challenge of the wallet's
\* address, hashes the signature and makes an Ed25519 key pair of the seed
deriveKeypairFromWallet(wallet) ==
    IF ~wallet.hasPublicKey \/ ~wallet.hasSignMessage
    THEN [ok |-> FALSE, err |-> "Wallet does not support required methods",
          keypair |-> NoKeypair, signs |-> <<>>, sig |-> NoSig]
    ELSE LET messageToSign == TextEncoder_encode(DeriveChallenge(wallet.addr))
             signedMessage == signMessage(wallet, messageToSign)
         IN  IF ~signedMessage.ok
             THEN [ok |-> FALSE, err |-> "User rejected the request",
                   keypair |-> NoKeypair, signs |-> <<messageToSign>>, sig |-> NoSig]
             ELSE [ok |-> TRUE, err |-> "",
                   keypair |-> sign_keyPair_fromSeed(sha512_32(signedMessage.sig)),
                   signs |-> <<messageToSign>>, sig |-> signedMessage.sig]

\* encryptMessage with the nonce and the ephemeral key pair made once, at module
\* load, and used by every call
encryptMessage_cachedEphemeral(message, recipientDerivedPublicKeyBase58, n) ==
    LET nonce == Nonce(1)
        ephemeralKeypair == box_keyPair(2)
        sharedKey == box_before(fromBase58(recipientDerivedPublicKeyBase58),
                                ephemeralKeypair.secretKey)
        ciphertext == secretbox(PlainBytes(VersionedJson(message)), nonce,
                                sharedKey.key)
    IN  [ok |-> message # "" /\ sharedKey.ok, err |-> sharedKey.err,
         data |-> [ciphertext |-> toBase64(ciphertext.bytes),
                   nonce |-> toBase64(nonce),
                   ephemeralPublicKey |-> toBase64(ephemeralKeypair.publicKey)],
         draws |-> 2]

\* encryptMessage(message, recipientDerivedPublicKeyBase58); n random values
\* were drawn before the call
encryptMessage(message, recipientDerivedPublicKeyBase58, n) ==
    IF message = ""
    THEN [ok |-> FALSE, err |-> "Message cannot be empty", data |-> NoEnvelope,
          draws |-> 0]
    ELSE IF recipientDerivedPublicKeyBase58 = EmptyBase58
    THEN [ok |-> FALSE, err |-> "Recipient derived public key is required",
          data |-> NoEnvelope, draws |-> 0]
    ELSE LET nonce == Nonce(n + 1)
             ephemeralKeypair == box_keyPair(n + 2)
             recipientDerivedPublicKey == fromBase58(recipientDerivedPublicKeyBase58)
             sharedKey == box_before(recipientDerivedPublicKey,
                                     ephemeralKeypair.secretKey)
             messageBytes == PlainBytes(VersionedJson(message))
             ciphertext == secretbox(messageBytes, nonce, sharedKey.key)
         IN  IF ~sharedKey.ok
             THEN [ok |-> FALSE, err |-> sharedKey.err, data |-> NoEnvelope,
                   draws |-> 2]
             ELSE [ok |-> TRUE, err |-> "",
                   data |-> [ciphertext |-> toBase64(ciphertext.bytes),
                             nonce |-> toBase64(nonce),
                             ephemeralPublicKey |->
                                 toBase64(ephemeralKeypair.publicKey)],
                   draws |-> 2]

\* Lines 258-271 (again 300-305 and 332-337): decode the three fields, make the
\* shared key, open the box. opens counts the calls of box.open.after.
OpenWith(encryptedData, secretKey) ==
    LET nonce == fromBase64(encryptedData.nonce)
        ciphertext == fromBase64(encryptedData.ciphertext)
        ephemeralPublicKey == fromBase64(encryptedData.ephemeralPublicKey)
        sharedKey == box_before(ephemeralPublicKey.bytes, secretKey)
        decryptedBytes == secretbox_open(ciphertext.bytes, nonce.bytes, sharedKey.key)
    IN  IF ~nonce.ok \/ ~ciphertext.ok \/ ~ephemeralPublicKey.ok
        THEN [status |-> "throw", err |-> "invalid encoding", bytes |-> EmptyBytes,
              opens |-> 0]
        ELSE IF ~sharedKey.ok
        THEN [status |-> "throw", err |-> sharedKey.err, bytes |-> EmptyBytes,
              opens |-> 0]
        ELSE [status |-> decryptedBytes.status, err |-> decryptedBytes.err,
              bytes |-> decryptedBytes.bytes, opens |-> 1]

\* Method 1 (lines 250-282): the Ed25519 key pair of deriveKeypairFromWallet;
\* whatever is thrown is caught and logged
Method1(encryptedData, wallet) ==
    LET derivedKeypair == deriveKeypairFromWallet(wallet)
        opened == OpenWith(encryptedData, derivedKeypair.keypair.secretKey)
    IN  IF ~derivedKeypair.ok
        THEN [status |-> "throw", bytes |-> EmptyBytes,
              signs |-> derivedKeypair.signs, opens |-> 0, derivations |-> 0]
        ELSE [status |-> opened.status, bytes |-> opened.bytes,
              signs |-> derivedKeypair.signs, opens |-> opened.opens,
              derivations |-> 1]

\* the challenge wordings of Method 2 (line 289) and of fallbackMessages
\* (lines 317-321), in the order they are tried
FallbackPrefixes ==
    <<"DM_DEV_DECRYPT:", "DM_THE_DEV_DECRYPT:", "Derive private key for ",
      "Sign to decrypt message for ">>

\* Method 2 (lines 285-314) and each turn of the loop of lines 323-347: sign the
\* i-th legacy challenge, take sha512(signature).slice(0, 32) as the box secret
\* key; whatever is thrown is caught and logged
FallbackMethod(encryptedData, wallet, i) ==
    LET msgBytes == TextEncoder_encode(
                        ChallengeText(FallbackPrefixes[i], wallet.addr, NoTime))
        signature == signMessage(wallet, msgBytes)
        keypair == box_keyPair_fromSecretKey(sha512_32(signature.sig))
        opened == OpenWith(encryptedData, keypair.secretKey)
    IN  IF ~wallet.hasPublicKey \/ ~wallet.hasSignMessage
        THEN [status |-> "throw", bytes |-> EmptyBytes, signs |-> <<>>,
              opens |-> 0, derivations |-> 0]
        ELSE IF ~signature.ok
        THEN [status |-> "throw", bytes |-> EmptyBytes, signs |-> <<msgBytes>>,
              opens |-> 0, derivations |-> 0]
        ELSE [status |-> opened.status, bytes |-> opened.bytes,
              signs |-> <<msgBytes>>, opens |-> opened.opens, derivations |-> 1]

NoResult ==
    [ok |-> FALSE, err |-> "", bytes |-> EmptyBytes, signs |-> <<>>, opens |-> 0,
     derivations |-> 0, names |-> {}, text |-> "", returnsNull |-> FALSE]

AllFailed ==
    "All decryption methods failed. This message may have been encrypted with an incompatible key or is corrupted."

\* the methods from the i-th legacy challenge on, after signs/opens/derivations
\* were made by the methods before
RECURSIVE TryFallbacks(_, _, _, _)
TryFallbacks(encryptedData, wallet, i, acc) ==
    IF i = 2 /\ ~wallet.hasPublicKey
    THEN \* line 318, outside any try: wallet.publicKey is undefined
         [acc EXCEPT !.err = "TypeError: Cannot read properties of undefined"]
    ELSE IF i > Len(FallbackPrefixes)
    THEN [acc EXCEPT !.err = AllFailed]
    ELSE LET m == FallbackMethod(encryptedData, wallet, i)
             next == [acc EXCEPT !.signs = @ \o m.signs,
                                 !.opens = @ + m.opens,
                                 !.derivations = @ + m.derivations]
         IN  IF m.status = "bytes"
             THEN [next EXCEPT !.ok = TRUE, !.bytes = m.bytes]
             ELSE TryFallbacks(encryptedData, wallet, i + 1, next)

\* decryptMessage(encryptedData, wallet) of lines 243-350
decryptMessage(encryptedData, wallet) ==
    LET m == Method1(encryptedData, wallet)
        first == [NoResult EXCEPT !.signs = m.signs, !.opens = m.opens,
                                  !.derivations = m.derivations]
    IN  IF m.status = "bytes"
        THEN [first EXCEPT !.ok = TRUE, !.bytes = m.bytes]
        ELSE TryFallbacks(encryptedData, wallet, 1, first)

\* what testEncryptionDecryption (lines 396-398) and the callers read out of
\* the returned bytes: JSON.parse(decode(bytes)).data
UnwrapPayload(bytes) ==
    IF bytes.layers = <<>> /\ bytes.body.fmt = "json-v2"
    THEN [ok |-> TRUE, data |-> bytes.body.data]
    ELSE [ok |-> FALSE, data |-> ""]

---------------------------------------------------------------------------
(* unnamed/part_008 lines 124-460: the module before the Ed25519 change *)

\* deriveKeypairFromWallet(wallet) of part_008: signs "DM_DEV_DECRYPT:<address>"
\* and makes the X25519 key pair of sha512(signature).slice(0, 32)
deriveKeypairFromWallet_part008(wallet) ==
    IF ~wallet.hasPublicKey \/ ~wallet.hasSignMessage
    THEN [ok |-> FALSE, err |-> "Wallet does not support required methods",
          keypair |-> NoKeypair, signs |-> <<>>, sig |-> NoSig]
    ELSE LET messageToSign == TextEncoder_encode(
                                  ChallengeText("DM_DEV_DECRYPT:", wallet.addr, NoTime))
             signedMessage == signMessage(wallet, messageToSign)
         IN  IF ~signedMessage.ok
             THEN [ok |-> FALSE, err |-> "User rejected the request",
                   keypair |-> NoKeypair, signs |-> <<messageToSign>>, sig |-> NoSig]
             ELSE [ok |-> TRUE, err |-> "",
                   keypair |-> box_keyPair_fromSecretKey(sha512_32(signedMessage.sig)),
                   signs |-> <<messageToSign>>, sig |-> signedMessage.sig]

KeyMismatch == "Key mismatch"
DecryptionFailed == "Decryption failed: incorrect key or message corrupted."

\* decryptMessage(encryptedData, wallet, encryptedForPublicKey?) of part_008;
\* names holds the two keys the key-mismatch message quotes
decryptMessage_part008(encryptedData, wallet, encryptedForPublicKey) ==
    LET keypair == deriveKeypairFromWallet_part008(wallet)
        derivedPublicKeyBase58 == toBase58(keypair.keypair.publicKey)
        opened == OpenWith(encryptedData, keypair.keypair.secretKey)
        derived == [NoResult EXCEPT !.signs = keypair.signs,
                                    !.derivations = IF keypair.ok THEN 1 ELSE 0]
    IN  IF ~keypair.ok
        THEN [derived EXCEPT !.err = keypair.err]
        ELSE IF /\ encryptedForPublicKey # EmptyBase58
                /\ derivedPublicKeyBase58 # encryptedForPublicKey
        THEN [derived EXCEPT !.err = KeyMismatch,
                             !.names = {encryptedForPublicKey, derivedPublicKeyBase58}]
        ELSE IF opened.status = "throw"
        THEN [derived EXCEPT !.err = opened.err, !.opens = opened.opens]
        ELSE IF opened.status = "null"
        THEN [derived EXCEPT !.err = DecryptionFailed, !.opens = opened.opens]
        ELSE [derived EXCEPT !.ok = TRUE, !.bytes = opened.bytes,
                             !.opens = opened.opens]

---------------------------------------------------------------------------
(* src/utils/encryption.ts lines 415-671: the version that frames the message *)
(* and calls box.after to decrypt                                            *)

\* the UTF-8 text of a body
BodyText(body) ==
    CASE body.fmt = "json-v2" -> "{\"v\":2,\"data\":\"" \o body.data \o "\"}"
      [] body.fmt = "framed-v1" ->
            "\\x01\\x00\\x00\\x00\\x" \o ToString(Len(body.data)) \o body.data
      [] OTHER -> body.data

\* new TextDecoder('utf-8', {fatal: false}).decode(bytes): ciphertext bytes
\* decode to replacement characters
DecodeLossy(bytes) ==
    IF bytes.len = 0 THEN ""
    ELSE IF bytes.layers # <<>>
    THEN "<" \o ToString(bytes.len) \o " bytes decoded with U+FFFD>"
    ELSE BodyText(bytes.body)

\* safeEncodeUTF8(text): version byte 1, four length bytes, the UTF-8 text
safeEncodeUTF8(text) == PlainBytes([fmt |-> "framed-v1", data |-> text])

\* tryDecodeMessage(bytes): the framed text, else whatever the bytes decode to,
\* else their hex dump
tryDecodeMessage(bytes) ==
    IF /\ bytes.layers = <<>> /\ bytes.body.fmt = "framed-v1"
       /\ Len(bytes.body.data) > 0
    THEN bytes.body.data
    ELSE IF DecodeLossy(bytes) # ""
    THEN DecodeLossy(bytes)
    ELSE "[Encrypted data: ]"

\* validateEncryptedData(data) of lines 545-566: what it throws ("" when it returns)
validateEncryptedData_boxAfter(data) ==
    LET ciphertext == fromBase64(data.ciphertext)
        nonce == fromBase64(data.nonce)
        ephemeralPublicKey == fromBase64(data.ephemeralPublicKey)
    IN  IF \/ ~ciphertext.ok \/ ~nonce.ok \/ ~ephemeralPublicKey.ok
           \/ nonce.bytes.len # nonceLength
           \/ ephemeralPublicKey.bytes.len # publicKeyLength
        THEN "Invalid base64 encoding in encrypted data"
        ELSE ""

\* encryptMessage(message, recipientPublicKeyB58) of lines 568-610; it draws the
\* ephemeral key pair before the nonce
encryptMessage_boxAfter(message, recipientPublicKeyB58, n) ==
    LET recipientPublicKey == fromBase58(recipientPublicKeyB58)
        ephemeralKeypair == box_keyPair(n + 1)
        nonce == Nonce(n + 2)
        sharedKey == box_before(recipientPublicKey, ephemeralKeypair.secretKey)
        encrypted == secretbox(safeEncodeUTF8(message), nonce, sharedKey.key)
        result == [ciphertext |-> toBase64(encrypted.bytes),
                   nonce |-> toBase64(nonce),
                   ephemeralPublicKey |-> toBase64(ephemeralKeypair.publicKey)]
    IN  IF recipientPublicKey.len # publicKeyLength
        THEN [ok |-> FALSE, err |-> "Invalid recipient public key length",
              data |-> NoEnvelope, draws |-> 0]
        ELSE IF validateEncryptedData_boxAfter(result) # ""
        THEN [ok |-> FALSE, err |-> validateEncryptedData_boxAfter(result),
              data |-> NoEnvelope, draws |-> 2]
        ELSE [ok |-> TRUE, err |-> "", data |-> result, draws |-> 2]

DecryptChallenge(recipientAddress) ==
    ChallengeText("Sign to decrypt messages on DM the DEV\nWallet: ",
                  recipientAddress, NoTime)

\* decryptMessage(encryptedData, wallet, recipientAddress) of lines 612-671: it
\* "decrypts" with box.after, which encrypts and checks no authenticator
decryptMessage_boxAfter(encryptedData, wallet, recipientAddress) ==
    LET message == TextEncoder_encode(DecryptChallenge(recipientAddress))
        signature == signMessage(wallet, message)
        secretKey == box_keyPair_fromSecretKey(sha512_32(signature.sig)).secretKey
        ciphertext == fromBase64(encryptedData.ciphertext)
        nonce == fromBase64(encryptedData.nonce)
        ephemeralPublicKey == fromBase64(encryptedData.ephemeralPublicKey)
        sharedKey == box_before(ephemeralPublicKey.bytes, secretKey)
        decrypted == secretbox(ciphertext.bytes, nonce.bytes, sharedKey.key)
        signed == [NoResult EXCEPT !.signs = <<message>>]
    IN  IF validateEncryptedData_boxAfter(encryptedData) # ""
        THEN [NoResult EXCEPT !.err = validateEncryptedData_boxAfter(encryptedData)]
        ELSE IF ~wallet.hasSignMessage
        THEN [NoResult EXCEPT !.err = "TypeError: wallet.signMessage is not a function"]
        ELSE IF ~signature.ok
        THEN [signed EXCEPT !.err = "User rejected the request"]
        ELSE IF ~sharedKey.ok
        THEN [signed EXCEPT !.err = sharedKey.err, !.derivations = 1]
        ELSE IF ~decrypted.ok
        THEN [signed EXCEPT !.err = decrypted.err, !.derivations = 1]
        ELSE [signed EXCEPT !.ok = TRUE, !.derivations = 1,
                            !.text = tryDecodeMessage(decrypted.bytes)]

---------------------------------------------------------------------------
(* unnamed/part_011: box.after again, and errors returned as text *)

\* validateEncryptedData(data) of part_011 lines 62-91: what it throws
validateEncryptedData_part011(data) ==
    LET ciphertext == fromBase64(data.ciphertext)
        nonce == fromBase64(data.nonce)
        ephemeralPublicKey == fromBase64(data.ephemeralPublicKey)
        thrown ==
            IF \/ IsEmptyString(data.ciphertext) \/ IsEmptyString(data.nonce)
               \/ IsEmptyString(data.ephemeralPublicKey)
            THEN "Missing required encryption fields"
            ELSE IF ~ciphertext.ok THEN "Invalid base64 in ciphertext: invalid encoding"
            ELSE IF ~nonce.ok THEN "Invalid base64 in nonce: invalid encoding"
            ELSE IF ~ephemeralPublicKey.ok
            THEN "Invalid base64 in ephemeralPublicKey: invalid encoding"
            ELSE IF nonce.bytes.len # nonceLength
            THEN "Invalid nonce length: " \o ToString(nonce.bytes.len)
            ELSE IF ephemeralPublicKey.bytes.len # publicKeyLength
            THEN "Invalid public key length: "
                     \o ToString(ephemeralPublicKey.bytes.len)
            ELSE IF ciphertext.bytes.len = 0 THEN "Empty ciphertext"
            ELSE ""
    IN  IF thrown = "" THEN "" ELSE "Invalid encrypted data: " \o thrown

\* safelyDecodeBytes(bytes) of part_011 lines 30-53 (the marks that open the
\* bracketed texts are left out)
safelyDecodeBytes_part011(bytes) ==
    IF bytes.len = 0
    THEN "[Empty data]"
    ELSE IF bytes.layers # <<>> \/ BodyText(bytes.body) = ""
    THEN "[Binary data (" \o ToString(bytes.len) \o " bytes): ...]"
    ELSE BodyText(bytes.body)

\* decryptMessage(encryptedData, wallet, recipientAddress) of part_011 lines
\* 138-179: whatever is thrown is returned as the text "[Error: ...]"
decryptMessage_part011(encryptedData, wallet, recipientAddress) ==
    LET message == TextEncoder_encode(DecryptChallenge(recipientAddress))
        signature == signMessage(wallet, message)
        secretKey == box_keyPair_fromSecretKey(sha512_32(signature.sig)).secretKey
        ciphertext == fromBase64(encryptedData.ciphertext)
        nonce == fromBase64(encryptedData.nonce)
        ephemeralPublicKey == fromBase64(encryptedData.ephemeralPublicKey)
        sharedKey == box_before(ephemeralPublicKey.bytes, secretKey)
        decrypted == secretbox(ciphertext.bytes, nonce.bytes, sharedKey.key)
        returned == [NoResult EXCEPT !.ok = TRUE]
        signed == [returned EXCEPT !.signs = <<message>>]
        Caught(error) == "[Error: " \o error \o "]"
    IN  IF validateEncryptedData_part011(encryptedData) # ""
        THEN [returned EXCEPT
                  !.text = Caught(validateEncryptedData_part011(encryptedData))]
        ELSE IF ~wallet.hasSignMessage
        THEN [returned EXCEPT
                  !.text = Caught("wallet.signMessage is not a function")]
        ELSE IF ~signature.ok
        THEN [signed EXCEPT !.text = Caught("User rejected the request")]
        ELSE IF ~sharedKey.ok
        THEN [signed EXCEPT !.text = Caught(sharedKey.err), !.derivations = 1]
        ELSE IF ~decrypted.ok
        THEN [signed EXCEPT !.text = Caught(decrypted.err), !.derivations = 1]
        ELSE [signed EXCEPT !.derivations = 1,
                            !.text = safelyDecodeBytes_part011(decrypted.bytes)]

---------------------------------------------------------------------------
(* unnamed/part_007 lines 1-159: the secret key is the head of the signature *)

\* signForDecryption(wallet, recipientAddress) of lines 53-106, called when
\* Date.now() is ts; a wallet that refuses is asked a second time
signForDecryption(wallet, recipientAddress, ts) ==
    LET message == TextEncoder_encode(
                       ChallengeText("Sign this message to decrypt your messages on DM the DEV.\n\nWallet: ",
                                     recipientAddress, ts))
        signature == signMessage(wallet, message)
        secretKey == [alg |-> "x25519", half |-> "secret",
                      of |-> "(" \o signature.sig \o ")[0..31]",
                      len |-> secretKeyLength]
    IN  IF ~wallet.hasSignMessage
        THEN [ok |-> FALSE, err |-> "Wallet does not support message signing",
              keypair |-> NoKeypair, signs |-> <<>>, sig |-> NoSig]
        ELSE IF ~signature.ok
        THEN [ok |-> FALSE, err |-> "Failed to sign message with wallet",
              keypair |-> NoKeypair, signs |-> <<message, message>>, sig |-> NoSig]
        ELSE IF signature.len < minSignatureLength
        THEN [ok |-> FALSE, err |-> "Invalid signature received from wallet",
              keypair |-> NoKeypair, signs |-> <<message>>, sig |-> NoSig]
        ELSE [ok |-> TRUE, err |-> "",
              keypair |-> [publicKey |-> NoKey, secretKey |-> secretKey],
              signs |-> <<message>>, sig |-> signature.sig]

---------------------------------------------------------------------------
(* unnamed/part_008 lines 1-123: the secret key is the head of the          *)
(* signature, and whatever goes wrong is answered with null                 *)

\* signForDecryption(wallet, recipientAddress) of part_008 lines 53-78: the
\* secret key, or null (ok = FALSE) when the wallet cannot or will not sign
signForDecryption_part008(wallet, recipientAddress) ==
    LET message == TextEncoder_encode(
                       ChallengeText("Decrypt message for ", recipientAddress, NoTime))
        signature == signMessage(wallet, message)
        secretKey == [alg |-> "x25519", half |-> "secret",
                      of |-> "(" \o signature.sig \o ")[0..31]",
                      len |-> secretKeyLength]
    IN  IF ~wallet.hasSignMessage
        THEN [ok |-> FALSE, err |-> "", keypair |-> NoKeypair, signs |-> <<>>,
              sig |-> NoSig]
        ELSE IF ~signature.ok
        THEN [ok |-> FALSE, err |-> "", keypair |-> NoKeypair,
              signs |-> <<message>>, sig |-> NoSig]
        ELSE [ok |-> TRUE, err |-> "",
              keypair |-> [publicKey |-> NoKey, secretKey |-> secretKey],
              signs |-> <<message>>, sig |-> signature.sig]

\* decryptMessage(encryptedData, wallet, recipientAddress) of part_008 lines
\* 80-123: the catch of lines 119-122 returns null for everything thrown
decryptMessage_part008_null(encryptedData, wallet, recipientAddress) ==
    LET secretKey == signForDecryption_part008(wallet, recipientAddress)
        opened == OpenWith(encryptedData, secretKey.keypair.secretKey)
        returned == [NoResult EXCEPT !.ok = TRUE, !.signs = secretKey.signs]
    IN  IF ~secretKey.ok
        THEN [returned EXCEPT !.returnsNull = TRUE]
        ELSE IF opened.status # "bytes"
        THEN [returned EXCEPT !.returnsNull = TRUE, !.opens = opened.opens,
                              !.derivations = 1]
        ELSE IF opened.bytes.layers # <<>>
        THEN \* encodeUTF8 throws URIError on bytes that are not UTF-8
             [returned EXCEPT !.returnsNull = TRUE, !.opens = opened.opens,
                              !.derivations = 1]
        ELSE [returned EXCEPT !.opens = opened.opens, !.derivations = 1,
                              !.text = BodyText(opened.bytes.body)]

---------------------------------------------------------------------------
(* Wallets and envelopes the operations are run with *)

Capabilities == {"signs", "rejects", "noSignMessage"}

Wallet(addr, capability, salt) ==
    [addr |-> addr, hasPublicKey |-> TRUE,
     hasSignMessage |-> capability # "noSignMessage",
     rejects |-> capability = "rejects", salt |-> salt,
     fixedSignature |-> NoSig, signatureLength |-> signatureLength]

\* a connected wallet and what it does when asked to sign
Wallets ==
    {Wallet(a, c, k) : a \in Addrs, c \in Capabilities, k \in 1..MaxSalt}
        \ {Wallet(a, c, k) : a \in Addrs \ Randomized, c \in Capabilities,
                             k \in 2..MaxSalt}

\* ways an envelope is altered or damaged between encryptMessage and decryptMessage
Alterations ==
    {"none", "ciphertext", "nonce", "ephemeralPublicKey",
     "noCiphertext", "noNonce", "noEphemeralPublicKey",
     "shortNonce", "shortEphemeralPublicKey", "tagOnly"}

\* ways a field stops being base64 text: a character outside the alphabet is
\* put in place of one of its characters, or its last character is dropped
EncodingAlterations ==
    {"ciphertextCharacter", "nonceCharacter", "ephemeralPublicKeyCharacter",
     "ciphertextCut", "nonceCut", "ephemeralPublicKeyCut"}

\* the alterations that flip bits and keep every length
BitFlips == {"ciphertext", "nonce", "ephemeralPublicKey"}

FlipCiphertext(bytes) ==
    [bytes EXCEPT !.layers = <<[Head(@) EXCEPT !.flip = TRUE]>> \o Tail(@)]

Alter(data, how) ==
    CASE how = "none" -> data
      [] how = "ciphertext" ->
            [data EXCEPT !.ciphertext.b64 = FlipCiphertext(@)]
      [] how = "nonce" ->
            [data EXCEPT !.nonce.b64.id = 0 - @]
      [] how = "ephemeralPublicKey" ->
            [data EXCEPT !.ephemeralPublicKey.b64.alg = "flipped"]
      [] how = "noCiphertext" ->
            [data EXCEPT !.ciphertext = toBase64(EmptyBytes)]
      [] how = "noNonce" ->
            [data EXCEPT !.nonce = toBase64(EmptyNonce)]
      [] how = "noEphemeralPublicKey" ->
            [data EXCEPT !.ephemeralPublicKey = toBase64(NoKey)]
      [] how = "shortNonce" ->
            [data EXCEPT !.nonce.b64.len = @ - 1]
      [] how = "shortEphemeralPublicKey" ->
            [data EXCEPT !.ephemeralPublicKey.b64.len = @ - 1]
      [] how = "tagOnly" ->
            [data EXCEPT !.ciphertext.b64.len = overheadLength]
      [] how = "ciphertextCharacter" ->
            [data EXCEPT !.ciphertext.wellFormed = FALSE]
      [] how = "nonceCharacter" ->
            [data EXCEPT !.nonce.wellFormed = FALSE]
      [] how = "ephemeralPublicKeyCharacter" ->
            [data EXCEPT !.ephemeralPublicKey.wellFormed = FALSE]
      [] how = "ciphertextCut" ->
            [data EXCEPT !.ciphertext.wellFormed = FALSE,
                         !.ciphertext.multipleOf4 = FALSE]
      [] how = "nonceCut" ->
            [data EXCEPT !.nonce.wellFormed = FALSE,
                         !.nonce.multipleOf4 = FALSE]
      [] how = "ephemeralPublicKeyCut" ->
            [data EXCEPT !.ephemeralPublicKey.wellFormed = FALSE,
                         !.ephemeralPublicKey.multipleOf4 = FALSE]

\* a call of decryptMessage: the envelope e as encryptMessage returned it, how
\* it was altered on the way, the wallet and the expected key passed, the outcome
Call(version, e, how, wallet, expected, result) ==
    [version |-> version, of |-> e, how |-> how, wallet |-> wallet,
     expected |-> expected, result |-> result]

\* the encryptedData argument of a call
CallData(c) == Alter(c.of.data, c.how)

---------------------------------------------------------------------------
(* The payload on concrete bytes. A text is the sequence of its UTF-16 code  *)
(* units, a byte string the sequence of its bytes (0..255).                 *)

\* code units of the characters the texts below are written with
Ch ==
    [quote |-> 34, backslash |-> 92, slash |-> 47, lbrace |-> 123,
     rbrace |-> 125, lbracket |-> 91, rbracket |-> 93, colon |-> 58,
     comma |-> 44, space |-> 32, minus |-> 45, zero |-> 48, one |-> 49,
     two |-> 50, nine |-> 57,
     backspace |-> 8, tab |-> 9, newline |-> 10, formfeed |-> 12, return |-> 13,
     A |-> 65, F |-> 70,
     a |-> 97, b |-> 98, d |-> 100, e |-> 101, f |-> 102, l |-> 108, n |-> 110,
     r |-> 114, s |-> 115, t |-> 116, u |-> 117, v |-> 118,
     eAcute |-> 233, highSurrogate |-> 55357, replacement |-> 65533,
     byteOrderMark |-> 65279]

RECURSIVE Flatten(_)
Flatten(seqs) == IF seqs = <<>> THEN <<>> ELSE Head(seqs) \o Flatten(Tail(seqs))

IsHighSurrogate(c) == c >= 55296 /\ c < 56320
IsLowSurrogate(c) == c >= 56320 /\ c < 57344

\* a high surrogate at i with its low surrogate behind it
IsPairAt(text, i) ==
    /\ i < Len(text)
    /\ IsHighSurrogate(text[i])
    /\ IsLowSurrogate(text[i + 1])

\* the lower-case hexadecimal digit of d
HexDigit(d) == IF d < 10 THEN Ch.zero + d ELSE Ch.a + (d - 10)

Hex4(c) ==
    <<HexDigit(c \div 4096), HexDigit((c \div 256) % 16),
      HexDigit((c \div 16) % 16), HexDigit(c % 16)>>

\* QuoteJSONString of JSON.stringify, one code unit: the two-character escapes,
\* \u00XX for the other control characters and \uXXXX for a lone surrogate
QuoteJSONChar(c) ==
    IF c = Ch.quote THEN <<Ch.backslash, Ch.quote>>
    ELSE IF c = Ch.backslash THEN <<Ch.backslash, Ch.backslash>>
    ELSE IF c = Ch.backspace THEN <<Ch.backslash, Ch.b>>
    ELSE IF c = Ch.formfeed THEN <<Ch.backslash, Ch.f>>
    ELSE IF c = Ch.newline THEN <<Ch.backslash, Ch.n>>
    ELSE IF c = Ch.return THEN <<Ch.backslash, Ch.r>>
    ELSE IF c = Ch.tab THEN <<Ch.backslash, Ch.t>>
    ELSE IF c < Ch.space \/ IsHighSurrogate(c) \/ IsLowSurrogate(c)
    THEN <<Ch.backslash, Ch.u>> \o Hex4(c)
    ELSE <<c>>

RECURSIVE QuoteJSONFrom(_, _)
QuoteJSONFrom(text, i) ==
    IF i > Len(text) THEN <<>>
    ELSE IF IsPairAt(text, i)
    THEN <<text[i], text[i + 1]>> \o QuoteJSONFrom(text, i + 2)
    ELSE QuoteJSONChar(text[i]) \o QuoteJSONFrom(text, i + 1)

\* JSON.stringify(text) of a string: the quoted, escaped text
JSON_stringify_string(text) ==
    <<Ch.quote>> \o QuoteJSONFrom(text, 1) \o <<Ch.quote>>

\* the text "data", the key of the payload in the versioned record
DataKey == <<Ch.d, Ch.a, Ch.t, Ch.a>>
VersionKey == <<Ch.v>>

\* '{"v":2,"data":"' + message + '"}': the record put together by concatenation
messageToEncrypt_concatenated(message) ==
    <<Ch.lbrace, Ch.quote>> \o VersionKey \o <<Ch.quote, Ch.colon, Ch.two, Ch.comma,
      Ch.quote>> \o DataKey \o <<Ch.quote, Ch.colon, Ch.quote>> \o message
        \o <<Ch.quote, Ch.rbrace>>

\* messageToEncrypt of encryptMessage: JSON.stringify({v: 2, data: message})
messageToEncrypt(message) ==
    <<Ch.lbrace, Ch.quote>> \o VersionKey \o <<Ch.quote, Ch.colon, Ch.two, Ch.comma,
      Ch.quote>> \o DataKey \o <<Ch.quote, Ch.colon>>
        \o JSON_stringify_string(message) \o <<Ch.rbrace>>

\* UTF-8 of one scalar value
EncodeScalar(u) ==
    IF u < 128 THEN <<u>>
    ELSE IF u < 2048 THEN <<192 + (u \div 64), 128 + (u % 64)>>
    ELSE IF u < 65536
    THEN <<224 + (u \div 4096), 128 + ((u \div 64) % 64), 128 + (u % 64)>>
    ELSE <<240 + (u \div 262144), 128 + ((u \div 4096) % 64), 128 + ((u \div 64) % 64),
           128 + (u % 64)>>

\* new TextEncoder().encode(text) on bytes: a surrogate pair is one scalar
\* value, a lone surrogate is encoded as U+FFFD
RECURSIVE EncodeFrom(_, _)
EncodeFrom(text, i) ==
    IF i > Len(text) THEN <<>>
    ELSE IF IsPairAt(text, i)
    THEN EncodeScalar(65536 + (text[i] - 55296) * 1024 + (text[i + 1] - 56320))
             \o EncodeFrom(text, i + 2)
    ELSE IF IsHighSurrogate(text[i]) \/ IsLowSurrogate(text[i])
    THEN EncodeScalar(Ch.replacement) \o EncodeFrom(text, i + 1)
    ELSE EncodeScalar(text[i]) \o EncodeFrom(text, i + 1)

TextEncoder_encode_bytes(text) == EncodeFrom(text, 1)

\* messageBytes of encryptMessage (lines 217-223)
messageBytes(message) == TextEncoder_encode_bytes(messageToEncrypt(message))

\* the code units of a scalar value: itself, or its surrogate pair
CodeUnits(u) ==
    IF u < 65536 THEN <<u>>
    ELSE <<55296 + ((u - 65536) \div 1024), 56320 + ((u - 65536) % 1024)>>

\* new TextDecoder("utf-8", {fatal: true}).decode(bytes) from byte i on: it
\* throws (ok = FALSE) on a byte sequence that is not well-formed UTF-8
RECURSIVE DecodeFrom(_, _, _)
DecodeFrom(bytes, i, acc) ==
    IF i > Len(bytes) THEN [ok |-> TRUE, text |-> acc]
    ELSE LET b == bytes[i]
             Cont(k) == k <= Len(bytes) /\ bytes[k] >= 128 /\ bytes[k] < 192
             Low(k) == bytes[k] - 128
         IN  IF b < 128
             THEN DecodeFrom(bytes, i + 1, Append(acc, b))
             ELSE IF b >= 194 /\ b < 224 /\ Cont(i + 1)
             THEN DecodeFrom(bytes, i + 2,
                             Append(acc, (b - 192) * 64 + Low(i + 1)))
             ELSE IF /\ b >= 224 /\ b < 240 /\ Cont(i + 1) /\ Cont(i + 2)
                     /\ (b = 224 => bytes[i + 1] >= 160)
                     /\ (b = 237 => bytes[i + 1] < 160)
             THEN DecodeFrom(bytes, i + 3,
                             Append(acc, (b - 224) * 4096 + Low(i + 1) * 64
                                             + Low(i + 2)))
             ELSE IF /\ b >= 240 /\ b < 245
                     /\ Cont(i + 1) /\ Cont(i + 2) /\ Cont(i + 3)
                     /\ (b = 240 => bytes[i + 1] >= 144)
                     /\ (b = 244 => bytes[i + 1] < 144)
             THEN DecodeFrom(bytes, i + 4,
                             acc \o CodeUnits((b - 240) * 262144 + Low(i + 1) * 4096
                                                  + Low(i + 2) * 64 + Low(i + 3)))
             ELSE [ok |-> FALSE, text |-> <<>>]

\* the decoder drops a byte order mark at the head of the text
TextDecoder_decode_fatal(bytes) ==
    LET d == DecodeFrom(bytes, 1, <<>>)
    IN  IF d.ok /\ d.text # <<>> /\ Head(d.text) = Ch.byteOrderMark
        THEN [ok |-> TRUE, text |-> Tail(d.text)]
        ELSE d

(* JSON.parse *)

JSONWhitespace == {Ch.space, Ch.tab, Ch.newline, Ch.return}

RECURSIVE SkipWhitespace(_, _)
SkipWhitespace(text, i) ==
    IF i <= Len(text) /\ text[i] \in JSONWhitespace
    THEN SkipWhitespace(text, i + 1)
    ELSE i

Undefined == [t |-> "undefined"]

\* JSON.parse throws SyntaxError
ParseFailed == [ok |-> FALSE, value |-> Undefined, next |-> 0]

\* a value was read and the text goes on at next
Parsed(value, next) == [ok |-> TRUE, value |-> value, next |-> next]

IsDigit(c) == c >= Ch.zero /\ c <= Ch.nine

\* the value of a hexadecimal digit, -1 for any other character
HexValue(c) ==
    IF IsDigit(c) THEN c - Ch.zero
    ELSE IF c >= Ch.a /\ c <= Ch.f THEN c - Ch.a + 10
    ELSE IF c >= Ch.A /\ c <= Ch.F THEN c - Ch.A + 10
    ELSE 0 - 1

\* the character a two-character escape stands for, -1 when there is none
Unescape(c) ==
    IF c \in {Ch.quote, Ch.backslash, Ch.slash} THEN c
    ELSE IF c = Ch.b THEN Ch.backspace
    ELSE IF c = Ch.f THEN Ch.formfeed
    ELSE IF c = Ch.n THEN Ch.newline
    ELSE IF c = Ch.r THEN Ch.return
    ELSE IF c = Ch.t THEN Ch.tab
    ELSE 0 - 1

\* a JSON string from behind its opening quote
RECURSIVE ParseStringFrom(_, _, _)
ParseStringFrom(text, i, acc) ==
    IF i > Len(text) THEN ParseFailed
    ELSE IF text[i] = Ch.quote THEN Parsed([t |-> "string", s |-> acc], i + 1)
    ELSE IF text[i] < Ch.space THEN ParseFailed
    ELSE IF text[i] # Ch.backslash
    THEN ParseStringFrom(text, i + 1, Append(acc, text[i]))
    ELSE IF i + 1 > Len(text) THEN ParseFailed
    ELSE IF Unescape(text[i + 1]) >= 0
    THEN ParseStringFrom(text, i + 2, Append(acc, Unescape(text[i + 1])))
    ELSE IF /\ text[i + 1] = Ch.u
            /\ i + 5 <= Len(text)
            /\ \A k \in 2..5 : HexValue(text[i + k]) >= 0
    THEN ParseStringFrom(text, i + 6,
                         Append(acc, HexValue(text[i + 2]) * 4096
                                         + HexValue(text[i + 3]) * 256
                                         + HexValue(text[i + 4]) * 16
                                         + HexValue(text[i + 5])))
    ELSE ParseFailed

RECURSIVE ParseDigits(_, _, _)
ParseDigits(text, i, n) ==
    IF i <= Len(text) /\ IsDigit(text[i])
    THEN ParseDigits(text, i + 1, n * 10 + (text[i] - Ch.zero))
    ELSE [n |-> n, next |-> i]

\* a JSON number without fraction and exponent (no text drawn below has one);
\* a leading 0 is a number by itself
ParseNumber(text, i) ==
    LET negative == text[i] = Ch.minus
        j == IF negative THEN i + 1 ELSE i
        digits == IF text[j] = Ch.zero
                  THEN [n |-> 0, next |-> j + 1]
                  ELSE ParseDigits(text, j, 0)
    IN  IF j > Len(text) \/ ~IsDigit(text[j])
        THEN ParseFailed
        ELSE Parsed([t |-> "number",
                     n |-> IF negative THEN 0 - digits.n ELSE digits.n],
                    digits.next)

StartsWithAt(text, i, word) ==
    /\ i + Len(word) - 1 <= Len(text)
    /\ SubSeq(text, i, i + Len(word) - 1) = word

RECURSIVE ParseValue(_, _)
RECURSIVE ParseMembers(_, _, _, _)
RECURSIVE ParseElements(_, _, _)

\* a JSON value from i on, white space before it skipped
ParseValue(text, i0) ==
    LET i == SkipWhitespace(text, i0)
        j == SkipWhitespace(text, i + 1)
    IN  IF i > Len(text) THEN ParseFailed
        ELSE IF text[i] = Ch.quote THEN ParseStringFrom(text, i + 1, <<>>)
        ELSE IF text[i] = Ch.lbrace
        THEN IF j <= Len(text) /\ text[j] = Ch.rbrace
             THEN Parsed([t |-> "object", keys |-> <<>>, values |-> <<>>], j + 1)
             ELSE ParseMembers(text, j, <<>>, <<>>)
        ELSE IF text[i] = Ch.lbracket
        THEN IF j <= Len(text) /\ text[j] = Ch.rbracket
             THEN Parsed([t |-> "array", items |-> <<>>], j + 1)
             ELSE ParseElements(text, j, <<>>)
        ELSE IF text[i] = Ch.minus \/ IsDigit(text[i]) THEN ParseNumber(text, i)
        ELSE IF StartsWithAt(text, i, <<Ch.t, Ch.r, Ch.u, Ch.e>>)
        THEN Parsed([t |-> "true"], i + 4)
        ELSE IF StartsWithAt(text, i, <<Ch.f, Ch.a, Ch.l, Ch.s, Ch.e>>)
        THEN Parsed([t |-> "false"], i + 5)
        ELSE IF StartsWithAt(text, i, <<Ch.n, Ch.u, Ch.l, Ch.l>>)
        THEN Parsed([t |-> "null"], i + 4)
        ELSE ParseFailed

\* the members of an object from the quote of the next key on
ParseMembers(text, i, keys, values) ==
    LET key == ParseStringFrom(text, i + 1, <<>>)
        colon == SkipWhitespace(text, key.next)
        value == ParseValue(text, colon + 1)
        end == SkipWhitespace(text, value.next)
    IN  IF i > Len(text) \/ text[i] # Ch.quote THEN ParseFailed
        ELSE IF ~key.ok THEN ParseFailed
        ELSE IF colon > Len(text) \/ text[colon] # Ch.colon THEN ParseFailed
        ELSE IF ~value.ok \/ end > Len(text) THEN ParseFailed
        ELSE IF text[end] = Ch.rbrace
        THEN Parsed([t |-> "object", keys |-> Append(keys, key.value.s),
                     values |-> Append(values, value.value)], end + 1)
        ELSE IF text[end] = Ch.comma
        THEN ParseMembers(text, SkipWhitespace(text, end + 1),
                          Append(keys, key.value.s), Append(values, value.value))
        ELSE ParseFailed

\* the elements of an array from the next element on
ParseElements(text, i, items) ==
    LET item == ParseValue(text, i)
        end == SkipWhitespace(text, item.next)
    IN  IF ~item.ok \/ end > Len(text) THEN ParseFailed
        ELSE IF text[end] = Ch.rbracket
        THEN Parsed([t |-> "array", items |-> Append(items, item.value)], end + 1)
        ELSE IF text[end] = Ch.comma
        THEN ParseElements(text, end + 1, Append(items, item.value))
        ELSE ParseFailed

\* JSON.parse(text): one value and nothing but white space behind it
JSON_parse(text) ==
    LET value == ParseValue(text, 1)
    IN  IF value.ok /\ SkipWhitespace(text, value.next) > Len(text)
        THEN value
        ELSE ParseFailed

\* value[key] of JavaScript: of the members of that name the last one counts
Get(value, key) ==
    IF value.t # "object" THEN Undefined
    ELSE LET at == {k \in 1..Len(value.keys) : value.keys[k] = key}
         IN  IF at = {} THEN Undefined
             ELSE value.values[CHOOSE k \in at : \A other \in at : other <= k]

\* parsed && parsed.v === 2 && typeof parsed.data === 'string'
IsVersionedRecord(parsed) ==
    /\ parsed.t = "object"
    /\ Get(parsed, VersionKey).t = "number"
    /\ Get(parsed, VersionKey).n = 2
    /\ Get(parsed, DataKey).t = "string"

(* Previews of bytes, and JSON.stringify(value, null, 2) *)

\* the character of a base64 digit; 64 stands for the padding
Base64Char(digit) ==
    IF digit < 26 THEN Ch.A + digit
    ELSE IF digit < 52 THEN Ch.a + (digit - 26)
    ELSE IF digit < 62 THEN Ch.zero + (digit - 52)
    ELSE IF digit = 62 THEN 43
    ELSE IF digit = 63 THEN Ch.slash
    ELSE 61

\* btoa(String.fromCharCode(...bytes)) and encodeBase64(bytes), from byte i on
RECURSIVE Base64From(_, _)
Base64From(bytes, i) ==
    IF i > Len(bytes) THEN <<>>
    ELSE LET b1 == bytes[i]
             b2 == IF i + 1 <= Len(bytes) THEN bytes[i + 1] ELSE 0
             b3 == IF i + 2 <= Len(bytes) THEN bytes[i + 2] ELSE 0
         IN  <<Base64Char(b1 \div 4),
               Base64Char((b1 % 4) * 16 + (b2 \div 16)),
               Base64Char(IF i + 1 <= Len(bytes)
                          THEN (b2 % 16) * 4 + (b3 \div 64) ELSE 64),
               Base64Char(IF i + 2 <= Len(bytes) THEN b3 % 64 ELSE 64)>>
                 \o Base64From(bytes, i + 3)

encodeBase64(bytes) == Base64From(bytes, 1)

\* Array.from(bytes).map(b => b.toString(16).padStart(2, '0')).join(' ')
RECURSIVE HexFrom(_, _)
HexFrom(bytes, i) ==
    IF i > Len(bytes) THEN <<>>
    ELSE (IF i > 1 THEN <<Ch.space>> ELSE <<>>)
             \o <<HexDigit(bytes[i] \div 16), HexDigit(bytes[i] % 16)>>
             \o HexFrom(bytes, i + 1)

\* text.slice(0, n)
Slice(text, n) == SubSeq(text, 1, IF Len(text) < n THEN Len(text) ELSE n)

Spaces(n) == [i \in 1..n |-> Ch.space]

RECURSIVE DigitsOf(_)
DigitsOf(n) ==
    IF n < 10 THEN <<Ch.zero + n>>
    ELSE DigitsOf(n \div 10) \o <<Ch.zero + (n % 10)>>

\* the members an object keeps: each name once, at its first place
OwnKeys(value) ==
    LET first == {k \in 1..Len(value.keys) :
                      \A j \in 1..(k - 1) : value.keys[j] # value.keys[k]}
        RECURSIVE InOrder(_)
        InOrder(k) ==
            IF k > Len(value.keys) THEN <<>>
            ELSE (IF k \in first THEN <<value.keys[k]>> ELSE <<>>) \o InOrder(k + 1)
    IN  InOrder(1)

\* JSON.stringify(value, null, 2) at a nesting depth: two spaces for each level
\* (no object drawn below has a key that is an array index)
RECURSIVE JSON_stringify_indented(_, _)
JSON_stringify_indented(value, depth) ==
    LET inner == Spaces(2 * (depth + 1))
        Lines(count, Line(_)) ==
            Flatten([k \in 1..count |->
                        (IF k > 1 THEN <<Ch.comma>> ELSE <<>>) \o <<Ch.newline>>
                            \o inner \o Line(k)])
        Item(k) == JSON_stringify_indented(value.items[k], depth + 1)
        Member(k) ==
            JSON_stringify_string(OwnKeys(value)[k]) \o <<Ch.colon, Ch.space>>
                \o JSON_stringify_indented(Get(value, OwnKeys(value)[k]), depth + 1)
    IN  CASE value.t = "string" -> JSON_stringify_string(value.s)
          [] value.t = "number" ->
                IF value.n < 0 THEN <<Ch.minus>> \o DigitsOf(0 - value.n)
                ELSE DigitsOf(value.n)
          [] value.t = "true" -> <<Ch.t, Ch.r, Ch.u, Ch.e>>
          [] value.t = "false" -> <<Ch.f, Ch.a, Ch.l, Ch.s, Ch.e>>
          [] value.t = "null" -> <<Ch.n, Ch.u, Ch.l, Ch.l>>
          [] value.t = "array" ->
                IF value.items = <<>> THEN <<Ch.lbracket, Ch.rbracket>>
                ELSE <<Ch.lbracket>> \o Lines(Len(value.items), Item)
                         \o <<Ch.newline>> \o Spaces(2 * depth) \o <<Ch.rbracket>>
          [] value.t = "object" ->
                IF value.keys = <<>> THEN <<Ch.lbrace, Ch.rbrace>>
                ELSE <<Ch.lbrace>> \o Lines(Len(OwnKeys(value)), Member)
                         \o <<Ch.newline>> \o Spaces(2 * depth) \o <<Ch.rbrace>>

(* The decoders *)

\* a decoder returned the text, with no label before it
DecodedText(text) == [label |-> "", text |-> text, base64 |-> <<>>, hex |-> <<>>]

\* the decoding of handleDecrypt (WalletProvider.tsx lines 185-217): the payload
\* of a versioned record, else the text, else the label and all of the base64
handleDecrypt(decryptedUint8Array) ==
    LET decodedText == TextDecoder_decode_fatal(decryptedUint8Array)
        parsed == JSON_parse(decodedText.text)
    IN  IF ~decodedText.ok
        THEN [label |-> "[Raw Binary Data]", text |-> <<>>,
              base64 |-> encodeBase64(decryptedUint8Array), hex |-> <<>>]
        ELSE IF parsed.ok /\ IsVersionedRecord(parsed.value)
        THEN DecodedText(Get(parsed.value, DataKey).s)
        ELSE DecodedText(decodedText.text)

\* the decoding of handleDecryptPastedMessage (page.tsx lines 399-422)
handleDecryptPastedMessage(decryptedUint8Array) ==
    LET decodedText == TextDecoder_decode_fatal(decryptedUint8Array)
        parsed == JSON_parse(decodedText.text)
    IN  IF ~decodedText.ok
        THEN [label |-> "[Raw Binary Data]", text |-> <<>>,
              base64 |-> encodeBase64(decryptedUint8Array), hex |-> <<>>]
        ELSE IF parsed.ok /\ IsVersionedRecord(parsed.value)
        THEN DecodedText(Get(parsed.value, DataKey).s)
        ELSE DecodedText(decodedText.text)

\* the lengths safelyDecodeBytes cuts its two previews to
base64PreviewLength == 32
hexPreviewLength == 48

\* safelyDecodeBytes(bytes) of encryption.ts lines 35-87
safelyDecodeBytes(bytes) ==
    LET mightBeJson == Head(bytes) = Ch.lbrace /\ bytes[Len(bytes)] = Ch.rbrace
        text == TextDecoder_decode_fatal(bytes)
        parsed == JSON_parse(text.text)
    IN  IF bytes = <<>>
        THEN [label |-> "[Empty data]", text |-> <<>>, base64 |-> <<>>,
              hex |-> <<>>]
        ELSE IF ~text.ok \/ text.text = <<>>
        THEN [label |-> "[Binary data (" \o ToString(Len(bytes)) \o " bytes)]",
              text |-> <<>>,
              base64 |-> Slice(encodeBase64(bytes), base64PreviewLength),
              hex |-> Slice(HexFrom(bytes, 1), hexPreviewLength)]
        ELSE IF mightBeJson /\ parsed.ok
        THEN DecodedText(JSON_stringify_indented(parsed.value, 0))
        ELSE DecodedText(text.text)

---------------------------------------------------------------------------
(* The state machine of the encryption module in use *)

NoDeployer == [address |-> "", error |-> FALSE]

(* The components: their state before anything has run *)

\* no wallet captured
NoWallet == Wallet("", "noSignMessage", 1)

\* KeyDerivation.tsx lines 14-18: the component's state; pc, run, wallet and
\* address are the place deriveAndStoreKey has reached and what its closure
\* holds; userDerivedKey is what onKeyDerived last gave the page
IdleKeyDerivation ==
    [derivedPublicKey |-> EmptyBase58, isLoading |-> FALSE, error |-> "",
     hasExistingKey |-> FALSE, userDerivedKey |-> EmptyBase58,
     pc |-> "idle", run |-> 0, wallet |-> NoWallet, address |-> "",
     derivedKeypair |-> NoKeypair]

\* a DecryptedMessage component that is not mounted
Unmounted ==
    [pc |-> "unmounted", address |-> "", requests |-> <<>>, ok |-> FALSE]

\* page.tsx line 45 and the closure of sendMessage: nothing is being sent
IdleSending ==
    [isSending |-> FALSE, pc |-> "idle", message |-> "",
     senderAddress |-> "", recipientAddress |-> "", recipientKey |-> EmptyBase58,
     txSig |-> "", encrypted |-> {}, transferred |-> FALSE, stored |-> FALSE,
     alert |-> "", alertTxSig |-> ""]

\* a DecryptedMessage component before it is mounted (WalletProvider.tsx lines
\* 145-147); null is the empty set
NotShown ==
    [pc |-> "unmounted", encryptedData |-> {}, wallet |-> {}, output |-> {},
     error |-> {}, pending |-> {}]

\* page.tsx before it is mounted (lines 47-48); pending are the calls of
\* fetchMessagesForDeployer that have not settled, each with the flag of the
\* effect run that made it, and last is the call that settled last
NothingLoaded ==
    [pc |-> "unmounted", messages |-> {}, decryptedMessages |-> {},
     pending |-> {}, last |-> {}]

\* supabase.ts line 3 before the application is loaded: no client, none
\* created, no call of getSupabaseClient made; null is the empty set
NoClient ==
    [loaded |-> FALSE, supabaseUrl |-> "", supabaseKey |-> "",
     supabaseInstance |-> {}, created |-> 0, last |-> {}]

InitModule ==
    /\ now = 1
    /\ rngCount = 0
    /\ keypairs = <<>>
    /\ sent = {}
    /\ lastDecrypt = {}
    /\ publicKey = ""
    /\ deployerInfo = NoDeployer
    /\ recipientKey = EmptyBase58
    /\ isDerivedKeyReady = FALSE
    /\ derivedInPage = {}
    /\ messages = {}
    /\ decoded = {}
    /\ recipientKeys = {}
    /\ keyDerivation = IdleKeyDerivation
    /\ events = <<>>
    /\ decrypting = [c \in 1..MaxMounted |-> Unmounted]
    /\ sendLog = {}
    /\ lastUpload = {}
    /\ lastFetch = {}
    /\ inFlight = [isLoading |-> FALSE, deriving |-> {}]
    /\ sending = IdleSending
    /\ shown = NotShown
    /\ loading = NothingLoaded
    /\ supabase = NoClient

Init == InitModule /\ plaintext = <<>> /\ payload = <<>>

\* what a call of a key derivation returned, the challenges it had signed, the
\* time of the call and how many random values had been drawn before it
Derived(version, wallet, r) ==
    [version |-> version, addr |-> wallet.addr, sig |-> r.sig,
     sigLength |-> wallet.signatureLength,
     publicKey |-> r.keypair.publicKey, secretKey |-> r.keypair.secretKey,
     signs |-> r.signs, drawnBefore |-> rngCount, at |-> now]

\* a wallet owner (or a test) calls deriveKeypairFromWallet
DeriveKeypair(wallet) ==
    LET r == deriveKeypairFromWallet(wallet)
    IN  /\ Len(keypairs) < MaxDerives
        /\ keypairs' = IF r.ok
                       THEN Append(keypairs, Derived("current", wallet, r))
                       ELSE keypairs
        /\ UNCHANGED <<now, rngCount, sent, lastDecrypt, pageVars, codecVars, clientVars, componentVars>>

\* a sender calls encryptMessage with a published derived key
Encrypt(message, key) ==
    LET r == encryptMessage(message, key, rngCount)
    IN  /\ rngCount + r.draws <= MaxRandom
        /\ rngCount' = rngCount + r.draws
        /\ sent' = IF r.ok
                   THEN sent \cup {[data |-> r.data, message |-> message,
                                    recipientKey |-> key,
                                    drawnBefore |-> rngCount]}
                   ELSE sent
        /\ UNCHANGED <<now, keypairs, lastDecrypt, pageVars, codecVars, clientVars, componentVars>>

\* a recipient calls decryptMessage on an envelope as it arrives; the caller
\* awaits the call and reads its outcome before it calls again
Decrypt(e, how, wallet) ==
    /\ lastDecrypt = {}
    /\ lastDecrypt' =
          {Call("current", e, how, wallet, EmptyBase58,
                decryptMessage(Alter(e.data, how), wallet))}
    /\ UNCHANGED <<now, rngCount, keypairs, sent, pageVars, codecVars, clientVars, componentVars>>

\* the caller has read the outcome of its decryptMessage call
ReadResult ==
    /\ lastDecrypt # {}
    /\ lastDecrypt' = {}
    /\ UNCHANGED <<now, rngCount, keypairs, sent, pageVars, codecVars, clientVars, componentVars>>

PublishedKeys == {toBase58(keypairs[i].publicKey) : i \in 1..Len(keypairs)}

Next ==
    \/ \E wallet \in Wallets : DeriveKeypair(wallet)
    \/ \E message \in Messages, key \in PublishedKeys : Encrypt(message, key)
    \/ \E e \in sent, how \in Alterations, wallet \in Wallets :
           Decrypt(e, how, wallet)
    \/ ReadResult

Spec == Init /\ [][Next]_vars

\* the callers of encryptMessage alone: keys are published and messages are
\* encrypted for them, again and again
NextEncrypt ==
    \/ \E wallet \in Wallets : DeriveKeypair(wallet)
    \/ \E message \in Messages, key \in PublishedKeys : Encrypt(message, key)

SpecEncrypt == Init /\ [][NextEncrypt]_vars

---------------------------------------------------------------------------
(* The earlier versions of the module, run next to the one in use: keys     *)
(* derived and envelopes stored by one version meet the decryptMessage of   *)
(* another                                                                  *)

\* a wallet owner calls the deriveKeypairFromWallet of part_008
DeriveKeypair_part008(wallet) ==
    LET r == deriveKeypairFromWallet_part008(wallet)
    IN  /\ Len(keypairs) < MaxDerives
        /\ keypairs' = IF r.ok
                       THEN Append(keypairs, Derived("part008", wallet, r))
                       ELSE keypairs
        /\ UNCHANGED <<now, rngCount, sent, lastDecrypt, pageVars, codecVars, clientVars, componentVars>>

\* a sender calls the encryptMessage of encryption.ts lines 568-610
Encrypt_boxAfter(message, key) ==
    LET r == encryptMessage_boxAfter(message, key, rngCount)
    IN  /\ rngCount + r.draws <= MaxRandom
        /\ rngCount' = rngCount + r.draws
        /\ sent' = IF r.ok
                   THEN sent \cup {[data |-> r.data, message |-> message,
                                    recipientKey |-> key,
                                    drawnBefore |-> rngCount]}
                   ELSE sent
        /\ UNCHANGED <<now, keypairs, lastDecrypt, pageVars, codecVars, clientVars, componentVars>>

\* a recipient calls the decryptMessage of part_008, with or without the key
\* the envelope was encrypted for
Decrypt_part008(e, how, wallet, expected) ==
    /\ lastDecrypt = {}
    /\ lastDecrypt' =
          {Call("part008", e, how, wallet, expected,
                decryptMessage_part008(Alter(e.data, how), wallet, expected))}
    /\ UNCHANGED <<now, rngCount, keypairs, sent, pageVars, codecVars, clientVars, componentVars>>

\* a recipient calls the decryptMessage of encryption.ts lines 612-671
Decrypt_boxAfter(e, how, wallet) ==
    /\ lastDecrypt = {}
    /\ lastDecrypt' =
          {Call("boxAfter", e, how, wallet, EmptyBase58,
                decryptMessage_boxAfter(Alter(e.data, how), wallet, wallet.addr))}
    /\ UNCHANGED <<now, rngCount, keypairs, sent, pageVars, codecVars, clientVars, componentVars>>

\* a recipient calls the decryptMessage of part_011
Decrypt_part011(e, how, wallet) ==
    /\ lastDecrypt = {}
    /\ lastDecrypt' =
          {Call("part011", e, how, wallet, EmptyBase58,
                decryptMessage_part011(Alter(e.data, how), wallet, wallet.addr))}
    /\ UNCHANGED <<now, rngCount, keypairs, sent, pageVars, codecVars, clientVars, componentVars>>

\* the wallets that sign when asked
SigningWallets == {w \in Wallets : w.hasSignMessage /\ ~w.rejects}

\* the envelope as sent, and the alterations that keep every length
AsSentOrFlipped == {"none"} \cup BitFlips

\* the plaintext followed through the versions
VersionsMessage == "hello"

NextVersions ==
    \/ \E wallet \in SigningWallets : DeriveKeypair(wallet)
    \/ \E wallet \in SigningWallets : DeriveKeypair_part008(wallet)
    \/ \E key \in PublishedKeys : Encrypt(VersionsMessage, key)
    \/ \E key \in PublishedKeys : Encrypt_boxAfter(VersionsMessage, key)
    \/ \E e \in sent, how \in AsSentOrFlipped, wallet \in SigningWallets :
           Decrypt(e, how, wallet)
    \/ \E e \in sent, how \in AsSentOrFlipped, wallet \in SigningWallets :
           \E expected \in {EmptyBase58, e.recipientKey} :
               Decrypt_part008(e, how, wallet, expected)
    \/ \E e \in sent, how \in AsSentOrFlipped, wallet \in SigningWallets :
           Decrypt_boxAfter(e, how, wallet)
    \/ \E e \in sent, how \in AsSentOrFlipped, wallet \in SigningWallets :
           Decrypt_part011(e, how, wallet)
    \/ ReadResult

SpecVersions == Init /\ [][NextVersions]_vars

---------------------------------------------------------------------------
(* Senders that pass encryptMessage a key of another length *)

\* base58 texts of the 64-byte secret keys of the derived Ed25519 key pairs: what
\* a caller passes that takes the wrong half of a key pair
WrongLengthKeys ==
    {toBase58(keypairs[i].secretKey) : i \in 1..Len(keypairs)}

NextRecipientKeys ==
    \/ \E wallet \in SigningWallets : DeriveKeypair(wallet)
    \/ \E message \in Messages, key \in PublishedKeys \cup WrongLengthKeys :
           Encrypt(message, key)
    \/ \E message \in Messages, key \in PublishedKeys \cup WrongLengthKeys :
           Encrypt_boxAfter(message, key)

SpecRecipientKeys == Init /\ [][NextRecipientKeys]_vars

---------------------------------------------------------------------------
(* What the versions answer when signing, validation or opening fails *)

\* a recipient calls the decryptMessage of part_008 lines 80-123
Decrypt_part008_null(e, how, wallet) ==
    /\ lastDecrypt = {}
    /\ lastDecrypt' =
          {Call("part008null", e, how, wallet, EmptyBase58,
                decryptMessage_part008_null(Alter(e.data, how), wallet, wallet.addr))}
    /\ UNCHANGED <<now, rngCount, keypairs, sent, pageVars, codecVars, clientVars, componentVars>>

\* wallets of one address: one that signs, one that refuses, one that cannot sign
FailureWallets == {w \in Wallets : w.addr = "A1"}

NextFailures ==
    \/ \E wallet \in SigningWallets : DeriveKeypair_part008(wallet)
    \/ \E key \in PublishedKeys : Encrypt(VersionsMessage, key)
    \/ \E e \in sent, how \in Alterations, wallet \in FailureWallets :
           Decrypt(e, how, wallet)
    \/ \E e \in sent, how \in Alterations, wallet \in FailureWallets :
           Decrypt_part011(e, how, wallet)
    \/ \E e \in sent, how \in Alterations, wallet \in FailureWallets :
           Decrypt_part008_null(e, how, wallet)
    \/ ReadResult

SpecFailures == Init /\ [][NextFailures]_vars

---------------------------------------------------------------------------
(* The challenges wallets are asked to sign as time passes *)

Tick ==
    /\ now < MaxTime
    /\ now' = now + 1
    /\ UNCHANGED <<rngCount, keypairs, sent, lastDecrypt, pageVars, codecVars, clientVars, componentVars>>

\* a recipient's page calls the signForDecryption of part_007
SignForDecryption(wallet) ==
    LET r == signForDecryption(wallet, wallet.addr, now)
    IN  /\ Len(keypairs) < MaxDerives
        /\ keypairs' = IF r.ok
                       THEN Append(keypairs, Derived("part007", wallet, r))
                       ELSE keypairs
        /\ UNCHANGED <<now, rngCount, sent, lastDecrypt, pageVars, codecVars, clientVars, componentVars>>

NextChallenge ==
    \/ Tick
    \/ \E wallet \in Wallets : DeriveKeypair(wallet)
    \/ \E wallet \in Wallets : DeriveKeypair_part008(wallet)
    \/ \E wallet \in Wallets : SignForDecryption(wallet)

SpecChallenge == Init /\ [][NextChallenge]_vars

---------------------------------------------------------------------------
(* Signers that answer with fewer bytes than a signature has *)

ShortLengths == {0, minSignatureLength - 1}

ShortSignatureWallets ==
    {[Wallet(a, "signs", 1) EXCEPT !.signatureLength = n] :
         a \in Addrs, n \in ShortLengths}

NextSignatures ==
    \/ Tick
    \/ \E wallet \in Wallets \cup ShortSignatureWallets : DeriveKeypair(wallet)
    \/ \E wallet \in Wallets \cup ShortSignatureWallets : SignForDecryption(wallet)

SpecSignatures == Init /\ [][NextSignatures]_vars

---------------------------------------------------------------------------
(* The key registry, and the page that sends through it *)

\* KeyRegistry.get(walletAddress): the record stored for the address, or none
getRecipientKey(walletAddress) ==
    IF \E row \in recipientKeys : row.wallet_address = walletAddress
    THEN [found |-> TRUE,
          derived_pubkey |->
              (CHOOSE row \in recipientKeys :
                   row.wallet_address = walletAddress).derived_pubkey]
    ELSE [found |-> FALSE, derived_pubkey |-> EmptyBase58]

\* KeyRegistry.put(walletAddress, derivedPublicKey): the rows after the upsert
upsertRecipientKey(walletAddress, derivedPubkey) ==
    {row \in recipientKeys : row.wallet_address # walletAddress}
        \cup {[wallet_address |-> walletAddress, derived_pubkey |-> derivedPubkey]}

\* what a send operation did: the lookup it made (none when it made none),
\* whether it called encryptMessage and with which key, and whether a row was
\* stored
Sending(handler, recipientAddress, lookup, key, encrypted, stored) ==
    [handler |-> handler, recipientAddress |-> recipientAddress,
     lookup |-> lookup.kind, lookedUp |-> lookup.key,
     encryptedTo |-> key, encrypted |-> encrypted, stored |-> stored]

NoLookup == [kind |-> "none", key |-> EmptyBase58]

\* how the lookup of handleSendMessage ends: keyError is the error Supabase
\* answers with, "" when none
Lookup(recipientAddress, keyError) ==
    IF keyError # "" THEN [kind |-> "error", key |-> EmptyBase58]
    ELSE IF ~getRecipientKey(recipientAddress).found
    THEN [kind |-> "missing", key |-> EmptyBase58]
    ELSE [kind |-> "found", key |-> getRecipientKey(recipientAddress).derived_pubkey]

LookupErrors == {"", "network error"}
RecipientAddresses == Addrs \cup {""}

\* handleSendMessage (part_006 lines 709-779): look the recipient's key up,
\* encrypt to it, store the envelope
handleSendMessage(recipientAddress, message, keyError, storeError) ==
    LET lookup == Lookup(recipientAddress, keyError)
        encrypted == encryptMessage(message, lookup.key, rngCount)
        row == [senderAddress |-> publicKey,
                recipientAddress |-> recipientAddress,
                ciphertext |-> encrypted.data.ciphertext,
                nonce |-> encrypted.data.nonce,
                ephemeralPublicKey |-> encrypted.data.ephemeralPublicKey]
    IN  IF publicKey = "" \/ recipientAddress = "" \/ message = ""
        THEN UNCHANGED vars
        ELSE IF lookup.kind # "found"
        THEN /\ sendLog' =
                    {Sending("handleSendMessage", recipientAddress, lookup,
                             EmptyBase58, FALSE, FALSE)}
             /\ UNCHANGED <<moduleVars, pageVars, codecVars, clientVars, recipientKeys,
                            keyDerivation, events, decrypting>>
        ELSE /\ rngCount + encrypted.draws <= MaxRandom
             /\ rngCount' = rngCount + encrypted.draws
             /\ sent' = IF encrypted.ok
                        THEN sent \cup {[data |-> encrypted.data,
                                         message |-> message,
                                         recipientKey |-> lookup.key,
                                         drawnBefore |-> rngCount]}
                        ELSE sent
             /\ messages' = IF encrypted.ok /\ storeError = ""
                            THEN messages \cup {row}
                            ELSE messages
             /\ sendLog' =
                    {Sending("handleSendMessage", recipientAddress, lookup,
                             lookup.key, TRUE,
                             encrypted.ok /\ storeError = "")}
             /\ UNCHANGED <<now, keypairs, lastDecrypt, publicKey, deployerInfo,
                            recipientKey, isDerivedKeyReady, derivedInPage,
                            codecVars, clientVars, recipientKeys, keyDerivation, events,
                            decrypting>>

---------------------------------------------------------------------------
(* src/app/page.tsx and src/utils/supabase.ts: finding a deployer, deriving *)
(* the recipient key, sending, and reading the stored messages              *)

\* what getTokenData leads handleFindDeployer to store (lines 84-110)
TokenLookups ==
    {[address |-> a, error |-> FALSE] : a \in Addrs}
        \cup {[address |-> "Not found", error |-> TRUE],
              [address |-> "Error", error |-> TRUE]}

TokenAddresses == {"", "T1"}

\* mockDeployerWallet of lines 133-149: signMessage returns, whatever it is
\* asked to sign, sha512 of the challenge text followed by the address bytes
MockDeployerWallet(deployerAddress) ==
    [addr |-> deployerAddress, hasPublicKey |-> TRUE, hasSignMessage |-> TRUE,
     rejects |-> FALSE, salt |-> 1, signatureLength |-> signatureLength,
     fixedSignature |->
         "sha512("
             \o TextEncoder_encode(
                    ChallengeText("DM_DEV_DECRYPT:", deployerAddress, NoTime))
             \o " ++ bs58.decode(" \o deployerAddress \o "))"]

\* validateBase64(str, fieldName): what it throws ("" when it returns true)
validateBase64(str, fieldName) ==
    IF IsEmptyString(str) THEN fieldName \o " is empty"
    ELSE IF ~str.wellFormed /\ str.multipleOf4
    THEN fieldName \o " contains invalid base64 characters"
    ELSE IF ~str.multipleOf4 THEN fieldName \o " has invalid length for base64"
    ELSE ""

\* uploadMessage(message): what it throws ("" when the row is inserted);
\* insertError is the error Supabase answers the insert with, "" when none
uploadMessage(message, insertError) ==
    IF validateBase64(message.ciphertext, "Ciphertext") # ""
    THEN validateBase64(message.ciphertext, "Ciphertext")
    ELSE IF validateBase64(message.nonce, "Nonce") # ""
    THEN validateBase64(message.nonce, "Nonce")
    ELSE IF validateBase64(message.ephemeralPublicKey, "Ephemeral public key") # ""
    THEN validateBase64(message.ephemeralPublicKey, "Ephemeral public key")
    ELSE IF message.senderAddress = "" \/ message.recipientAddress = ""
    THEN "Sender and recipient addresses are required"
    ELSE insertError

InsertErrors == {"", "network error"}

\* how the tip of sendMessage ends (lines 196-252)
TipOutcomes == {"none", "confirmed", "insufficient", "balanceError", "failed"}

\* the envelope of a stored row
RowData(row) ==
    [ciphertext |-> row.ciphertext, nonce |-> row.nonce,
     ephemeralPublicKey |-> row.ephemeralPublicKey]

\* the wallet adapter connects a wallet
ConnectWallet(addr) ==
    /\ publicKey = ""
    /\ publicKey' = addr
    /\ UNCHANGED <<moduleVars, codecVars, clientVars, componentVars, deployerInfo, recipientKey, isDerivedKeyReady,
                   derivedInPage, messages>>

DisconnectWallet ==
    /\ publicKey # ""
    /\ publicKey' = ""
    /\ UNCHANGED <<moduleVars, codecVars, clientVars, componentVars, deployerInfo, recipientKey, isDerivedKeyReady,
                   derivedInPage, messages>>

\* handleFindDeployer (lines 76-116)
handleFindDeployer(tokenAddress, result) ==
    /\ IF tokenAddress = ""
       THEN UNCHANGED <<deployerInfo, recipientKey, isDerivedKeyReady>>
       ELSE /\ recipientKey' = EmptyBase58
            /\ isDerivedKeyReady' = FALSE
            /\ deployerInfo' = result
    /\ UNCHANGED <<moduleVars, codecVars, clientVars, componentVars, publicKey, derivedInPage, messages>>

\* handleDeriveRecipientKey (lines 118-174)
handleDeriveRecipientKey ==
    LET derivedKeypair ==
            deriveKeypairFromWallet(MockDeployerWallet(deployerInfo.address))
    IN  /\ IF \/ deployerInfo.address = "" \/ deployerInfo.error
              \/ publicKey = ""
              \/ ~derivedKeypair.ok
           THEN UNCHANGED <<recipientKey, isDerivedKeyReady, derivedInPage>>
           ELSE /\ recipientKey' = toBase58(derivedKeypair.keypair.publicKey)
                /\ isDerivedKeyReady' = TRUE
                /\ derivedInPage' = derivedInPage \cup {derivedKeypair.keypair}
        /\ UNCHANGED <<moduleVars, codecVars, clientVars, componentVars, publicKey, deployerInfo, messages>>

\* sendMessage (lines 176-298) for the text typed into the form
sendMessage(message, tip, insertError) ==
    LET encrypted == encryptMessage(message, recipientKey, rngCount)
        row == [senderAddress |-> publicKey,
                recipientAddress |-> deployerInfo.address,
                ciphertext |-> encrypted.data.ciphertext,
                nonce |-> encrypted.data.nonce,
                ephemeralPublicKey |-> encrypted.data.ephemeralPublicKey]
    IN  IF \/ message = "" \/ publicKey = ""
           \/ deployerInfo.address = "" \/ deployerInfo.error
           \/ ~isDerivedKeyReady \/ recipientKey = EmptyBase58
           \/ tip \notin {"none", "confirmed"}
        THEN UNCHANGED vars
        ELSE /\ rngCount + encrypted.draws <= MaxRandom
             /\ rngCount' = rngCount + encrypted.draws
             /\ sent' = IF encrypted.ok
                        THEN sent \cup {[data |-> encrypted.data,
                                         message |-> message,
                                         recipientKey |-> recipientKey,
                                         drawnBefore |-> rngCount]}
                        ELSE sent
             /\ messages' = IF encrypted.ok /\ uploadMessage(row, insertError) = ""
                            THEN messages \cup {row}
                            ELSE messages
             /\ sendLog' =
                    {Sending("sendMessage", deployerInfo.address, NoLookup,
                             recipientKey, TRUE,
                             encrypted.ok /\ uploadMessage(row, insertError) = "")}
             /\ UNCHANGED <<now, keypairs, lastDecrypt, publicKey, deployerInfo,
                            recipientKey, isDerivedKeyReady, derivedInPage,
                            codecVars, clientVars, recipientKeys, keyDerivation, events,
                            decrypting>>

\* the page of the connected wallet has fetched the rows stored for its address
\* (lines 312-338) and a DecryptedMessage component decrypts one of them
DecryptStored(row, wallet) ==
    /\ lastDecrypt = {}
    /\ publicKey = row.recipientAddress
    /\ wallet.addr = publicKey
    /\ lastDecrypt' =
          {Call("current", CHOOSE e \in sent : e.data = RowData(row), "none",
                wallet, EmptyBase58, decryptMessage(RowData(row), wallet))}
    /\ UNCHANGED <<now, rngCount, keypairs, sent, pageVars, codecVars, clientVars, componentVars>>

NextPage ==
    \/ \E addr \in Addrs : ConnectWallet(addr)
    \/ DisconnectWallet
    \/ \E tokenAddress \in TokenAddresses, result \in TokenLookups :
           handleFindDeployer(tokenAddress, result)
    \/ handleDeriveRecipientKey
    \/ \E message \in Messages, tip \in TipOutcomes, insertError \in InsertErrors :
           sendMessage(message, tip, insertError)
    \/ \E row \in messages, wallet \in Wallets : DecryptStored(row, wallet)
    \/ ReadResult

SpecPage == Init /\ [][NextPage]_vars

---------------------------------------------------------------------------
(* Envelopes that reach decryptMessage and uploadMessage from outside: pasted *)
(* into the page, or handed to the exported function by another caller      *)

\* a call of uploadMessage: the message passed, what was thrown, whether the
\* row was inserted
Upload(message, thrown) ==
    [message |-> message, thrown |-> thrown, inserted |-> thrown = ""]

\* uploadMessage, had it written the row in place of the rows stored for the
\* recipient
UploadMessage_replacing(e, how, senderAddress, recipientAddress, insertError) ==
    LET data == Alter(e.data, how)
        message == [senderAddress |-> senderAddress,
                    recipientAddress |-> recipientAddress,
                    ciphertext |-> data.ciphertext,
                    nonce |-> data.nonce,
                    ephemeralPublicKey |-> data.ephemeralPublicKey]
        thrown == uploadMessage(message, insertError)
    IN  /\ messages' =
              IF thrown = ""
              THEN {row \in messages : row.recipientAddress # recipientAddress}
                       \cup {message}
              ELSE messages
        /\ lastUpload' = {Upload(message, thrown)}
        /\ UNCHANGED <<moduleVars, codecVars, componentVars, publicKey,
                       deployerInfo, recipientKey, isDerivedKeyReady,
                       derivedInPage, lastFetch, inFlight, sending, shown, loading,
                       supabase>>

\* a caller awaits uploadMessage(message) for an envelope as it has it
UploadMessage(e, how, senderAddress, recipientAddress, insertError) ==
    LET data == Alter(e.data, how)
        message == [senderAddress |-> senderAddress,
                    recipientAddress |-> recipientAddress,
                    ciphertext |-> data.ciphertext,
                    nonce |-> data.nonce,
                    ephemeralPublicKey |-> data.ephemeralPublicKey]
        thrown == uploadMessage(message, insertError)
    IN  /\ messages' = IF thrown = "" THEN messages \cup {message} ELSE messages
        /\ lastUpload' = {Upload(message, thrown)}
        /\ UNCHANGED <<moduleVars, codecVars, componentVars, publicKey,
                       deployerInfo, recipientKey, isDerivedKeyReady,
                       derivedInPage, lastFetch, inFlight, sending, shown, loading,
                       supabase>>

\* the envelope as sent, or with one field that is no base64 text
AsSentOrMisencoded == {"none"} \cup EncodingAlterations

NextEncoding ==
    \/ \E wallet \in FailureWallets : DeriveKeypair(wallet)
    \/ \E key \in PublishedKeys : Encrypt(VersionsMessage, key)
    \/ \E e \in sent, how \in AsSentOrMisencoded, wallet \in FailureWallets :
           Decrypt(e, how, wallet)
    \/ ReadResult
    \/ \E e \in sent, how \in AsSentOrMisencoded, insertError \in InsertErrors :
           UploadMessage(e, how, "A2", "A1", insertError)

SpecEncoding == Init /\ [][NextEncoding]_vars

---------------------------------------------------------------------------
(* The methods of decryptMessage, each with envelopes it opens *)

\* the key pair the (i+1)-th method of decryptMessage makes of the wallet's
\* signature (lines 289-298 and 327-331): the key an earlier version of the
\* page published for the wallet when it signed the i-th legacy challenge
deriveKeypair_fallback(wallet, i) ==
    LET msgBytes == TextEncoder_encode(
                        ChallengeText(FallbackPrefixes[i], wallet.addr, NoTime))
        signature == signMessage(wallet, msgBytes)
    IN  IF ~wallet.hasPublicKey \/ ~wallet.hasSignMessage
        THEN [ok |-> FALSE, err |-> "TypeError", keypair |-> NoKeypair,
              signs |-> <<>>, sig |-> NoSig]
        ELSE IF ~signature.ok
        THEN [ok |-> FALSE, err |-> "User rejected the request",
              keypair |-> NoKeypair, signs |-> <<msgBytes>>, sig |-> NoSig]
        ELSE [ok |-> TRUE, err |-> "",
              keypair |-> box_keyPair_fromSecretKey(sha512_32(signature.sig)),
              signs |-> <<msgBytes>>, sig |-> signature.sig]

\* a wallet owner published such a key
DeriveKeypair_fallback(wallet, i) ==
    LET r == deriveKeypair_fallback(wallet, i)
    IN  /\ Len(keypairs) < MaxDerives
        /\ keypairs' = IF r.ok
                       THEN Append(keypairs, Derived("fallback", wallet, r))
                       ELSE keypairs
        /\ UNCHANGED <<now, rngCount, sent, lastDecrypt, pageVars, codecVars,
                       clientVars, componentVars>>

\* the adapter of a wallet that is selected and not connected: its publicKey
\* is null
NotConnected(wallet) == [wallet EXCEPT !.hasPublicKey = FALSE]

\* the wallets of A1, connected or not
MethodWallets == FailureWallets \cup {NotConnected(w) : w \in FailureWallets}

NextMethods ==
    \/ \E wallet \in FailureWallets : DeriveKeypair(wallet)
    \/ \E wallet \in FailureWallets, i \in 1..Len(FallbackPrefixes) :
           DeriveKeypair_fallback(wallet, i)
    \/ \E key \in PublishedKeys : Encrypt(VersionsMessage, key)
    \/ \E e \in sent, how \in {"none", "ciphertext"}, wallet \in MethodWallets :
           Decrypt(e, how, wallet)
    \/ ReadResult

SpecMethods == Init /\ [][NextMethods]_vars

---------------------------------------------------------------------------
(* A DecryptedMessage component whose props change while it decrypts *)

\* the texts the component renders, without their emoji
MissingData ==
    "[Missing data] Required decryption data or wallet adapter not available"
DecryptionFailedPrefix == "[Decryption failed] "
Initializing == "[Initializing decryption...]"
Decrypting == "Decrypting message..."

\* what handleDecrypt (WalletProvider.tsx lines 156-225) sets for props once
\* its call of decryptMessage has settled: output, or error; a prop that is
\* null is the empty set
handleDecrypt_outcome(encryptedData, wallet) ==
    IF encryptedData = {} \/ wallet = {}
    THEN [output |-> {}, error |-> {MissingData}]
    ELSE LET decryptedUint8Array ==
                 decryptMessage(CHOOSE data \in encryptedData : TRUE,
                                CHOOSE adapter \in wallet : TRUE)
         IN  IF decryptedUint8Array.ok
             THEN [output |-> {UnwrapPayload(decryptedUint8Array.bytes).data},
                   error |-> {}]
             ELSE [output |-> {},
                   error |-> {DecryptionFailedPrefix \o decryptedUint8Array.err}]

\* what the component renders (lines 230-252)
Rendered(output, error) ==
    IF error # {} THEN CHOOSE text \in error : TRUE
    ELSE IF output = {} THEN Decrypting
    ELSE CHOOSE text \in output : TRUE

\* the component is rendered with props, for the first time or again, and its
\* effect runs handleDecrypt up to the await of line 164
DecryptedMessage_rendered(encryptedData, wallet) ==
    /\ shown.pc = "unmounted"
          \/ shown.encryptedData # encryptedData \/ shown.wallet # wallet
    /\ shown' =
          IF encryptedData = {} \/ wallet = {}
          THEN [shown EXCEPT !.pc = "mounted", !.encryptedData = encryptedData,
                             !.wallet = wallet, !.error = {MissingData}]
          ELSE [shown EXCEPT !.pc = "mounted", !.encryptedData = encryptedData,
                             !.wallet = wallet,
                             !.pending = @ \cup {[encryptedData |-> encryptedData,
                                                  wallet |-> wallet]}]
    /\ UNCHANGED <<moduleVars, pageVars, codecVars, componentVars, lastUpload,
                   lastFetch, inFlight, sending, loading, supabase>>

\* a call of decryptMessage the component waits for has settled (lines
\* 164-224): setOutput, or setError
decryptMessage_settled(call) ==
    LET outcome == handleDecrypt_outcome(call.encryptedData, call.wallet)
    IN  /\ call \in shown.pending
        /\ shown' =
              [shown EXCEPT !.pending = @ \ {call},
                            !.output = IF outcome.error = {} THEN outcome.output
                                       ELSE @,
                            !.error = IF outcome.error = {} THEN @
                                      ELSE outcome.error]
        /\ UNCHANGED <<moduleVars, pageVars, codecVars, componentVars, lastUpload,
                       lastFetch, inFlight, sending, loading, supabase>>

\* the wallet props: none, a wallet of A1 that signs and one that rejects
ShownWallets == {{}, {Wallet("A1", "signs", 1)}, {Wallet("A1", "rejects", 1)}}

\* the messages shown
ShownMessages == {"hello", "{}"}

NextShown ==
    \/ DeriveKeypair_fallback(Wallet("A1", "signs", 1), 1)
    \/ \E message \in ShownMessages, key \in PublishedKeys : Encrypt(message, key)
    \/ \E encryptedData \in {{}} \cup {{e.data} : e \in sent},
          wallet \in ShownWallets :
           DecryptedMessage_rendered(encryptedData, wallet)
    \/ \E call \in shown.pending : decryptMessage_settled(call)

SpecShown == Init /\ [][NextShown]_vars

---------------------------------------------------------------------------
(* The table of messages and the two functions that reach it *)

FetchErrors == {"", "network error"}

\* fetchMessagesForDeployer(recipientAddress) of supabase.ts lines 97-127:
\* the rows whose recipient_address is the address, each mapped to an
\* EncryptedMessage; fetchError is the error Supabase answers with. A row is
\* named by the column values uploadMessage sets; id and created_at, which the
\* database fills in, and with them the order of the result, are left out.
fetchMessagesForDeployer(recipientAddress, fetchError) ==
    IF fetchError # ""
    THEN [thrown |-> fetchError, data |-> {}]
    ELSE [thrown |-> "",
          data |-> {[senderAddress |-> row.senderAddress,
                     recipientAddress |-> row.recipientAddress,
                     ciphertext |-> row.ciphertext,
                     nonce |-> row.nonce,
                     ephemeralPublicKey |-> row.ephemeralPublicKey] :
                        row \in {r \in messages :
                                    r.recipientAddress = recipientAddress}}]

\* a caller awaits fetchMessagesForDeployer
FetchMessages(recipientAddress, fetchError) ==
    /\ lastFetch' =
          {[recipientAddress |-> recipientAddress,
            result |-> fetchMessagesForDeployer(recipientAddress, fetchError)]}
    /\ UNCHANGED <<moduleVars, pageVars, codecVars, componentVars, lastUpload,
                   inFlight, sending, shown, loading, supabase>>

\* messages encrypted for the key of A1 are uploaded for A1, as they are or
\* with a nonce cut short, and the messages of either address are fetched
NextStore ==
    \/ \E wallet \in FailureWallets : DeriveKeypair(wallet)
    \/ \E key \in PublishedKeys : Encrypt(VersionsMessage, key)
    \/ \E e \in sent, how \in {"none", "nonceCut"}, insertError \in InsertErrors :
           UploadMessage(e, how, "A2", "A1", insertError)
    \/ \E recipientAddress \in Addrs, fetchError \in FetchErrors :
           FetchMessages(recipientAddress, fetchError)

SpecStore == Init /\ [][NextStore]_vars

---------------------------------------------------------------------------
(* page.tsx: the effect that loads the messages of the connected wallet *)

\* the effect of lines 312-338 runs for the key publicKey: with a key it calls
\* fetchMessagesForDeployer and waits, its flag mounted true; without one it
\* empties messages and decryptedMessages
loadMessages(l, key) ==
    IF key # ""
    THEN [l EXCEPT !.pending = @ \cup {[key |-> key, mounted |-> TRUE]}]
    ELSE [l EXCEPT !.messages = {}, !.decryptedMessages = {}]

\* the cleanup of every run of the effect so far (lines 335-337)
cleanup(l) ==
    [l EXCEPT !.pending = {[call EXCEPT !.mounted = FALSE] : call \in @}]

\* the page mounts: its state is as useState makes it (lines 47-48) and the
\* effect runs
Page_mounted ==
    /\ loading.pc = "unmounted"
    /\ loading' = loadMessages([loading EXCEPT !.pc = "mounted",
                                               !.messages = {},
                                               !.decryptedMessages = {},
                                               !.last = {}],
                               publicKey)
    /\ UNCHANGED <<moduleVars, pageVars, codecVars, componentVars, lastUpload,
                   lastFetch, inFlight, sending, shown, supabase>>

\* the page unmounts and the cleanup of the effect runs
Page_unmounted ==
    /\ loading.pc = "mounted"
    /\ loading' = [cleanup(loading) EXCEPT !.pc = "unmounted"]
    /\ UNCHANGED <<moduleVars, pageVars, codecVars, componentVars, lastUpload,
                   lastFetch, inFlight, sending, shown, supabase>>

\* the wallet adapter connects, disconnects or changes the wallet of the
\* mounted page: publicKey?.toBase58() changes, the cleanup of the last run of
\* the effect runs and the effect runs again (line 338)
publicKey_changed(addr) ==
    /\ loading.pc = "mounted"
    /\ addr # publicKey
    /\ publicKey' = addr
    /\ loading' = loadMessages(cleanup(loading), addr)
    /\ UNCHANGED <<moduleVars, codecVars, componentVars, deployerInfo,
                   recipientKey, isDerivedKeyReady, derivedInPage, messages,
                   lastUpload, lastFetch, inFlight, sending, shown, supabase>>

\* the effect, had it set the state without looking at its flag, as
\* fetchMessages of lines 300-309 does
fetchMessagesForDeployer_answered_unguarded(call, fetchError) ==
    LET fetchedMessages == fetchMessagesForDeployer(call.key, fetchError)
    IN  /\ call \in loading.pending
        /\ loading' =
              IF fetchedMessages.thrown = ""
              THEN [loading EXCEPT !.pending = @ \ {call},
                                   !.last = {[call |-> call,
                                              result |-> fetchedMessages]},
                                   !.messages = fetchedMessages.data,
                                   !.decryptedMessages = {}]
              ELSE [loading EXCEPT !.pending = @ \ {call},
                                   !.last = {[call |-> call,
                                              result |-> fetchedMessages]}]
        /\ UNCHANGED <<moduleVars, pageVars, codecVars, componentVars,
                       lastUpload, lastFetch, inFlight, sending, shown, supabase>>

\* a fetchMessagesForDeployer call of the effect has settled (lines 318-326)
fetchMessagesForDeployer_answered(call, fetchError) ==
    LET fetchedMessages == fetchMessagesForDeployer(call.key, fetchError)
    IN  /\ call \in loading.pending
        /\ loading' =
              IF fetchedMessages.thrown = "" /\ call.mounted
              THEN [loading EXCEPT !.pending = @ \ {call},
                                   !.last = {[call |-> call,
                                              result |-> fetchedMessages]},
                                   !.messages = fetchedMessages.data,
                                   !.decryptedMessages = {}]
              ELSE [loading EXCEPT !.pending = @ \ {call},
                                   !.last = {[call |-> call,
                                              result |-> fetchedMessages]}]
        /\ UNCHANGED <<moduleVars, pageVars, codecVars, componentVars,
                       lastUpload, lastFetch, inFlight, sending, shown, supabase>>

\* handleDecryptMessageFromList(messageId) of lines 357-375 for a message
\* shown; a message is named by its row
handleDecryptMessageFromList(messageToDecrypt) ==
    /\ loading.pc = "mounted"
    /\ publicKey # ""
    /\ messageToDecrypt \in loading.messages
    /\ loading' = [loading EXCEPT !.decryptedMessages = @ \cup {messageToDecrypt}]
    /\ UNCHANGED <<moduleVars, pageVars, codecVars, componentVars, lastUpload,
                   lastFetch, inFlight, sending, shown, supabase>>

\* the first message encrypted is stored for A1 and for A2, and the page loads
\* the messages of the wallet that is connected
NextLoading ==
    \/ DeriveKeypair(Wallet("A1", "signs", 1))
    \/ \E key \in PublishedKeys : Encrypt(VersionsMessage, key)
    \/ \E e \in {e \in sent : e.drawnBefore = 0}, recipientAddress \in Addrs :
           UploadMessage(e, "none", "A2", recipientAddress, "")
    \/ Page_mounted
    \/ Page_unmounted
    \/ \E addr \in Addrs \cup {""} : publicKey_changed(addr)
    \/ \E call \in loading.pending, fetchError \in FetchErrors :
           fetchMessagesForDeployer_answered(call, fetchError)
    \/ \E messageToDecrypt \in loading.messages :
           handleDecryptMessageFromList(messageToDecrypt)

SpecLoading == Init /\ [][NextLoading]_vars

---------------------------------------------------------------------------
(* supabase.ts: the client of the database *)

SupabaseNotSet == "Supabase URL and Key are not set in environment variables."

\* getSupabaseClient, had it no cached instance to return
getSupabaseClient_uncached(s) ==
    IF s.supabaseUrl = "" \/ s.supabaseKey = ""
    THEN [thrown |-> SupabaseNotSet, returned |-> {}, cached |-> FALSE,
          next |-> s]
    ELSE LET client == [supabaseUrl |-> s.supabaseUrl,
                        supabaseKey |-> s.supabaseKey, n |-> s.created + 1]
         IN  [thrown |-> "", returned |-> {client}, cached |-> FALSE,
              next |-> [s EXCEPT !.supabaseInstance = {client},
                                 !.created = @ + 1]]

\* getSupabaseClient() of lines 5-20 in the state s of the module: what it
\* throws, what it returns, whether that was the cached instance, and the
\* state it leaves; a client is named by the arguments of createClient and
\* by how many were created before it
getSupabaseClient(s) ==
    IF s.supabaseInstance # {}
    THEN [thrown |-> "", returned |-> s.supabaseInstance, cached |-> TRUE,
          next |-> s]
    ELSE IF s.supabaseUrl = "" \/ s.supabaseKey = ""
    THEN [thrown |-> SupabaseNotSet, returned |-> {}, cached |-> FALSE,
          next |-> s]
    ELSE LET client == [supabaseUrl |-> s.supabaseUrl,
                        supabaseKey |-> s.supabaseKey, n |-> s.created + 1]
         IN  [thrown |-> "", returned |-> {client}, cached |-> FALSE,
              next |-> [s EXCEPT !.supabaseInstance = {client},
                                 !.created = @ + 1]]

\* the state of the module after a call of getSupabaseClient
AfterCall(client) ==
    [client.next EXCEPT !.last = {[thrown |-> client.thrown,
                                   returned |-> client.returned,
                                   cached |-> client.cached]}]

\* the application is built and loaded: process.env.NEXT_PUBLIC_SUPABASE_URL
\* and process.env.NEXT_PUBLIC_SUPABASE_ANON_KEY are what the build sets them
\* to, "" when it sets none
LoadModule(supabaseUrl, supabaseKey) ==
    /\ ~supabase.loaded
    /\ supabase' = [supabase EXCEPT !.loaded = TRUE,
                                    !.supabaseUrl = supabaseUrl,
                                    !.supabaseKey = supabaseKey]
    /\ UNCHANGED <<moduleVars, pageVars, codecVars, componentVars, lastUpload,
                   lastFetch, inFlight, sending, shown, loading>>

\* a caller calls getSupabaseClient()
GetSupabaseClient ==
    /\ supabase.loaded
    /\ supabase' = AfterCall(getSupabaseClient(supabase))
    /\ UNCHANGED <<moduleVars, pageVars, codecVars, componentVars, lastUpload,
                   lastFetch, inFlight, sending, shown, loading>>

\* a caller awaits uploadMessage(message), which asks for the client once the
\* message is validated (lines 52-95)
uploadMessage_called(e, how, senderAddress, recipientAddress, insertError) ==
    LET data == Alter(e.data, how)
        message == [senderAddress |-> senderAddress,
                    recipientAddress |-> recipientAddress,
                    ciphertext |-> data.ciphertext,
                    nonce |-> data.nonce,
                    ephemeralPublicKey |-> data.ephemeralPublicKey]
        client == getSupabaseClient(supabase)
        thrown == uploadMessage(message, IF client.thrown # "" THEN client.thrown
                                         ELSE insertError)
    IN  /\ supabase.loaded
        /\ supabase' = IF uploadMessage(message, "") = "" THEN AfterCall(client)
                       ELSE supabase
        /\ messages' = IF thrown = "" THEN messages \cup {message} ELSE messages
        /\ lastUpload' = {Upload(message, thrown)}
        /\ UNCHANGED <<moduleVars, codecVars, componentVars, publicKey,
                       deployerInfo, recipientKey, isDerivedKeyReady,
                       derivedInPage, lastFetch, inFlight, sending, shown,
                       loading>>

\* a caller awaits fetchMessagesForDeployer(recipientAddress), which asks for
\* the client first (lines 97-127)
fetchMessagesForDeployer_called(recipientAddress, fetchError) ==
    LET client == getSupabaseClient(supabase)
    IN  /\ supabase.loaded
        /\ supabase' = AfterCall(client)
        /\ lastFetch' =
              {[recipientAddress |-> recipientAddress,
                result |-> fetchMessagesForDeployer(
                               recipientAddress,
                               IF client.thrown # "" THEN client.thrown
                               ELSE fetchError)]}
        /\ UNCHANGED <<moduleVars, pageVars, codecVars, componentVars,
                       lastUpload, inFlight, sending, shown, loading>>

\* what the build sets the two variables to
SupabaseUrls == {"", "https://project.supabase.co"}
SupabaseKeys == {"", "anon key"}

NextSupabase ==
    \/ \E supabaseUrl \in SupabaseUrls, supabaseKey \in SupabaseKeys :
           LoadModule(supabaseUrl, supabaseKey)
    \/ GetSupabaseClient
    \/ DeriveKeypair(Wallet("A1", "signs", 1))
    \/ \E key \in PublishedKeys : Encrypt(VersionsMessage, key)
    \/ \E e \in {e \in sent : e.drawnBefore = 0}, how \in {"none", "nonceCut"},
          insertError \in InsertErrors :
           uploadMessage_called(e, how, "A2", "A1", insertError)
    \/ \E recipientAddress \in Addrs, fetchError \in FetchErrors :
           fetchMessagesForDeployer_called(recipientAddress, fetchError)

SpecSupabase == Init /\ [][NextSupabase]_vars

---------------------------------------------------------------------------
(* KeyDerivation.tsx: deriving the messaging key and publishing it *)

\* one thing a run of deriveAndStoreKey did
Event(op, key) ==
    [run |-> keyDerivation.run, op |-> op, wallet |-> keyDerivation.wallet,
     address |-> keyDerivation.address, key |-> key]

\* the catch and finally of deriveAndStoreKey (lines 81-87)
Failed(state, message) ==
    [state EXCEPT !.error = message, !.isLoading = FALSE, !.pc = "idle"]

StoreErrors == {"", "network error"}

\* checkExistingKey (lines 27-48), run by the effect of lines 21-25 for the
\* connected wallet: shows the key the registry holds for the address
checkExistingKey(lookupError) ==
    LET data == getRecipientKey(publicKey)
    IN  /\ publicKey # ""
        /\ keyDerivation' =
              IF lookupError = "" /\ data.found
              THEN [keyDerivation EXCEPT !.derivedPublicKey = data.derived_pubkey,
                                         !.hasExistingKey = TRUE,
                                         !.userDerivedKey = data.derived_pubkey]
              ELSE keyDerivation
        /\ UNCHANGED <<moduleVars, pageVars, codecVars, clientVars, recipientKeys, events,
                       decrypting, sendLog>>

\* deriveAndStoreKey up to its first await (lines 50-63): the button is there
\* for a connected wallet and is disabled while isLoading; a wallet object
\* without publicKey or signMessage makes deriveKeypairFromWallet throw before
\* it asks for a signature
deriveAndStoreKey_started(wallet) ==
    LET run == [keyDerivation EXCEPT !.isLoading = TRUE, !.error = "",
                                     !.run = @ + 1, !.wallet = wallet,
                                     !.address = publicKey,
                                     !.derivedKeypair = NoKeypair]
        derivedKeypair == deriveKeypairFromWallet(wallet)
    IN  /\ publicKey # "" /\ wallet.addr = publicKey
        /\ ~keyDerivation.isLoading
        /\ keyDerivation.run < MaxRuns
        /\ IF derivedKeypair.signs = <<>>
           THEN /\ keyDerivation' = Failed(run, derivedKeypair.err)
                /\ events' = events \o
                      <<[run |-> run.run, op |-> "deriveAndStoreKey",
                         wallet |-> wallet, address |-> publicKey,
                         key |-> EmptyBase58],
                        [run |-> run.run, op |-> "deriveKeypairFromWallet rejected",
                         wallet |-> wallet, address |-> publicKey,
                         key |-> EmptyBase58]>>
           ELSE /\ keyDerivation' = [run EXCEPT !.pc = "signing"]
                /\ events' = Append(events,
                      [run |-> run.run, op |-> "deriveAndStoreKey",
                       wallet |-> wallet, address |-> publicKey,
                       key |-> EmptyBase58])
        /\ UNCHANGED <<moduleVars, pageVars, codecVars, clientVars, recipientKeys,
                       decrypting, sendLog>>

\* the wallet has answered the signing request (lines 63-70): on a signature
\* the key is derived and upsertRecipientKey is called; on a refusal the run
\* ends in the catch
deriveAndStoreKey_signed ==
    LET derivedKeypair == deriveKeypairFromWallet(keyDerivation.wallet)
        derivedPubkeyBase58 == toBase58(derivedKeypair.keypair.publicKey)
    IN  /\ keyDerivation.pc = "signing"
        /\ IF ~derivedKeypair.ok
           THEN /\ keyDerivation' = Failed(keyDerivation, derivedKeypair.err)
                /\ events' = Append(events,
                      Event("deriveKeypairFromWallet rejected", EmptyBase58))
           ELSE /\ keyDerivation' =
                      [keyDerivation EXCEPT
                          !.pc = "storing",
                          !.derivedKeypair = derivedKeypair.keypair]
                /\ events' = events \o
                      <<Event("deriveKeypairFromWallet resolved",
                              derivedPubkeyBase58),
                        Event("upsertRecipientKey", derivedPubkeyBase58)>>
        /\ UNCHANGED <<moduleVars, pageVars, codecVars, clientVars, recipientKeys,
                       decrypting, sendLog>>

\* the same step had the state been set when the key was derived, before the
\* registry has answered
deriveAndStoreKey_stored_early(storeError) ==
    LET derivedPubkeyBase58 == toBase58(keyDerivation.derivedKeypair.publicKey)
    IN  /\ keyDerivation.pc = "storing"
        /\ recipientKeys' =
              IF storeError = ""
              THEN upsertRecipientKey(keyDerivation.address, derivedPubkeyBase58)
              ELSE recipientKeys
        /\ keyDerivation' =
              [keyDerivation EXCEPT !.derivedPublicKey = derivedPubkeyBase58,
                                    !.hasExistingKey = TRUE,
                                    !.userDerivedKey = derivedPubkeyBase58,
                                    !.error = storeError,
                                    !.isLoading = FALSE, !.pc = "idle"]
        /\ events' = events \o
              <<Event("setDerivedPublicKey", derivedPubkeyBase58),
                Event("setHasExistingKey", derivedPubkeyBase58),
                Event("onKeyDerived", derivedPubkeyBase58),
                Event(IF storeError = "" THEN "upsertRecipientKey returned"
                      ELSE "upsertRecipientKey failed", derivedPubkeyBase58)>>
        /\ UNCHANGED <<moduleVars, pageVars, codecVars, clientVars, decrypting, sendLog>>

\* upsertRecipientKey has returned (lines 70-87): on an error the run ends in
\* the catch; else the key is shown and the page is told
deriveAndStoreKey_stored(storeError) ==
    LET derivedPubkeyBase58 == toBase58(keyDerivation.derivedKeypair.publicKey)
    IN  /\ keyDerivation.pc = "storing"
        /\ IF storeError # ""
           THEN /\ recipientKeys' = recipientKeys
                /\ keyDerivation' =
                      Failed(keyDerivation, "Failed to store key: " \o storeError)
                /\ events' = Append(events,
                      Event("upsertRecipientKey failed", derivedPubkeyBase58))
           ELSE /\ recipientKeys' =
                      upsertRecipientKey(keyDerivation.address, derivedPubkeyBase58)
                /\ keyDerivation' =
                      [keyDerivation EXCEPT
                          !.derivedPublicKey = derivedPubkeyBase58,
                          !.hasExistingKey = TRUE,
                          !.userDerivedKey = derivedPubkeyBase58,
                          !.isLoading = FALSE, !.pc = "idle"]
                /\ events' = events \o
                      <<Event("upsertRecipientKey returned", derivedPubkeyBase58),
                        Event("setDerivedPublicKey", derivedPubkeyBase58),
                        Event("setHasExistingKey", derivedPubkeyBase58),
                        Event("onKeyDerived", derivedPubkeyBase58)>>
        /\ UNCHANGED <<moduleVars, pageVars, codecVars, clientVars, decrypting, sendLog>>

NextKeyDerivation ==
    \/ \E addr \in Addrs : ConnectWallet(addr)
    \/ DisconnectWallet
    \/ \E lookupError \in LookupErrors : checkExistingKey(lookupError)
    \/ \E wallet \in Wallets : deriveAndStoreKey_started(wallet)
    \/ deriveAndStoreKey_signed
    \/ \E storeError \in StoreErrors : deriveAndStoreKey_stored(storeError)

SpecKeyDerivation == Init /\ [][NextKeyDerivation]_vars

\* the page of part_006 and the page of page.tsx, sending: the visitor is A1
\* and publishes the key of A1, the message is sent with no tip or with a tip
\* that fails
SendMessages == {VersionsMessage, ""}

NextSend ==
    \/ ConnectWallet("A1")
    \/ \E wallet \in FailureWallets : deriveAndStoreKey_started(wallet)
    \/ deriveAndStoreKey_signed
    \/ \E storeError \in StoreErrors : deriveAndStoreKey_stored(storeError)
    \/ \E recipientAddress \in RecipientAddresses, message \in SendMessages,
          keyError \in LookupErrors, storeError \in StoreErrors :
           handleSendMessage(recipientAddress, message, keyError, storeError)
    \/ \E result \in TokenLookups : handleFindDeployer("T1", result)
    \/ handleDeriveRecipientKey
    \/ \E message \in SendMessages, tip \in {"none", "failed"},
          insertError \in InsertErrors :
           sendMessage(message, tip, insertError)

SpecSend == Init /\ [][NextSend]_vars

---------------------------------------------------------------------------
(* page.tsx: the two handlers step by step, from await to await *)

\* handleFindDeployer up to its await (lines 76-84); the button is disabled
\* while isLoading
handleFindDeployer_started(tokenAddress) ==
    /\ ~inFlight.isLoading
    /\ IF tokenAddress = ""
       THEN UNCHANGED <<recipientKey, isDerivedKeyReady, inFlight>>
       ELSE /\ inFlight' = [inFlight EXCEPT !.isLoading = TRUE]
            /\ recipientKey' = EmptyBase58
            /\ isDerivedKeyReady' = FALSE
    /\ UNCHANGED <<moduleVars, codecVars, componentVars, publicKey, deployerInfo,
                   derivedInPage, messages, lastUpload, lastFetch, sending,
                   shown, loading, supabase>>

\* getTokenData has settled (lines 84-115)
handleFindDeployer_answered(result) ==
    /\ inFlight.isLoading
    /\ deployerInfo' = result
    /\ inFlight' = [inFlight EXCEPT !.isLoading = FALSE]
    /\ UNCHANGED <<moduleVars, codecVars, componentVars, publicKey, recipientKey,
                   isDerivedKeyReady, derivedInPage, messages, lastUpload,
                   lastFetch, sending, shown, loading, supabase>>

\* handleDeriveRecipientKey up to its first await (lines 118-150): the button
\* is disabled without a deployer or a connected wallet, and the deployer
\* address is read here
handleDeriveRecipientKey_started ==
    /\ IF \/ deployerInfo.address = "" \/ deployerInfo.error
          \/ publicKey = ""
       THEN UNCHANGED inFlight
       ELSE inFlight' = [inFlight EXCEPT !.deriving = @ \cup {deployerInfo.address}]
    /\ UNCHANGED <<moduleVars, pageVars, codecVars, componentVars, lastUpload,
                   lastFetch, sending, shown, loading, supabase>>

\* the import and deriveKeypairFromWallet have settled (lines 150-173)
handleDeriveRecipientKey_resolved(deployerAddress) ==
    LET derivedKeypair ==
            deriveKeypairFromWallet(MockDeployerWallet(deployerAddress))
    IN  /\ deployerAddress \in inFlight.deriving
        /\ inFlight' = [inFlight EXCEPT !.deriving = @ \ {deployerAddress}]
        /\ IF ~derivedKeypair.ok
           THEN UNCHANGED <<recipientKey, isDerivedKeyReady, derivedInPage>>
           ELSE /\ recipientKey' = toBase58(derivedKeypair.keypair.publicKey)
                /\ isDerivedKeyReady' = TRUE
                /\ derivedInPage' = derivedInPage \cup {derivedKeypair.keypair}
        /\ UNCHANGED <<moduleVars, codecVars, componentVars, publicKey, deployerInfo,
                       messages, lastUpload, lastFetch, sending, shown, loading,
                       supabase>>

NextLookup ==
    \/ ConnectWallet("A1")
    \/ \E tokenAddress \in TokenAddresses : handleFindDeployer_started(tokenAddress)
    \/ \E result \in TokenLookups : handleFindDeployer_answered(result)
    \/ handleDeriveRecipientKey_started
    \/ \E deployerAddress \in Addrs :
           handleDeriveRecipientKey_resolved(deployerAddress)
    \/ \E message \in SendMessages, tip \in {"none", "failed"},
          insertError \in InsertErrors :
           sendMessage(message, tip, insertError)

SpecLookup == Init /\ [][NextLookup]_vars

---------------------------------------------------------------------------
(* page.tsx: sendMessage step by step, from await to await *)

\* what the wallet's balance check comes to (lines 198-213)
BalanceOutcomes == {"enough", "insufficient", "error"}

\* how connection.confirmTransaction settles (lines 237-245), and what the
\* cluster did with the transaction: confirmed without error; executed with
\* an error; or the call is rejected (time-out, connection lost) after the
\* cluster did, or did not, execute the transfer
ConfirmOutcomes == {"confirmed", "err", "rejectedTransferred", "rejectedDropped"}

\* the signature sendTransaction resolves to; "" stands for undefined
Signatures == {"", "txSig1"}

\* a run of sendMessage returns: the alert it showed, with the transaction id
\* when the alert text holds one, and isSending as the run leaves it
Returned(s, alert, alertTxSig, isSending) ==
    [s EXCEPT !.pc = "idle", !.alert = alert, !.alertTxSig = alertTxSig,
              !.isSending = isSending]

\* lines 255-278 of a run s: encryptMessage, and then either the alert of the
\* catch of lines 261-266 or the wait for uploadMessage
encryptThenUpload(s) ==
    LET encrypted == encryptMessage(s.message, s.recipientKey, rngCount)
    IN  /\ rngCount + encrypted.draws <= MaxRandom
        /\ rngCount' = rngCount + encrypted.draws
        /\ sent' = IF encrypted.ok
                   THEN sent \cup {[data |-> encrypted.data,
                                    message |-> s.message,
                                    recipientKey |-> s.recipientKey,
                                    drawnBefore |-> rngCount]}
                   ELSE sent
        /\ sending' =
              IF encrypted.ok
              THEN [s EXCEPT !.pc = "uploadMessage",
                             !.encrypted = {encrypted.data}]
              ELSE Returned(s, "Failed to encrypt message. Please try again.",
                            "", FALSE)

\* sendMessage(withTip) up to its first await (lines 176-199, or 176-270
\* without a tip); the buttons are disabled while isSending
sendMessage_started(message, withTip, tipAmount) ==
    LET s == [IdleSending EXCEPT !.isSending = TRUE, !.message = message,
                                 !.senderAddress = publicKey,
                                 !.recipientAddress = deployerInfo.address,
                                 !.recipientKey = recipientKey]
    IN  /\ ~sending.isSending
        /\ sending.pc = "idle"
        /\ IF \/ message = "" \/ publicKey = ""
              \/ deployerInfo.address = "" \/ deployerInfo.error
           THEN /\ sending' =
                      Returned(IdleSending,
                               "Please connect wallet, enter a message, and find a valid token deployer first!",
                               "", FALSE)
                /\ UNCHANGED <<rngCount, sent>>
           ELSE IF ~isDerivedKeyReady \/ recipientKey = EmptyBase58
           THEN /\ sending' =
                      Returned(IdleSending,
                               "Please derive the recipient key first!", "",
                               FALSE)
                /\ UNCHANGED <<rngCount, sent>>
           ELSE IF withTip /\ tipAmount > 0
           THEN /\ rngCount
                      + encryptMessage(message, recipientKey, rngCount).draws
                         <= MaxRandom
                /\ sending' = [s EXCEPT !.pc = "getBalance"]
                /\ UNCHANGED <<rngCount, sent>>
           ELSE encryptThenUpload(s)
        /\ UNCHANGED <<now, keypairs, lastDecrypt, pageVars, codecVars,
                       componentVars, lastUpload, lastFetch, inFlight, shown,
                       loading, supabase>>

\* connection.getBalance has settled (lines 199-213)
sendMessage_getBalance(outcome) ==
    /\ sending.pc = "getBalance"
    /\ sending' =
          CASE outcome = "enough" -> [sending EXCEPT !.pc = "getLatestBlockhash"]
            [] outcome = "insufficient" ->
                   Returned(sending,
                            "Insufficient SOL balance for tip and transaction fee",
                            "", FALSE)
            [] outcome = "error" ->
                   Returned(sending,
                            "Failed to check wallet balance. Please try again.",
                            "", FALSE)
    /\ UNCHANGED <<moduleVars, pageVars, codecVars, componentVars, lastUpload,
                   lastFetch, inFlight, shown, loading, supabase>>

\* connection.getLatestBlockhash has settled (lines 230-232, 247-252)
sendMessage_getLatestBlockhash(resolved) ==
    /\ sending.pc = "getLatestBlockhash"
    /\ sending' =
          IF resolved
          THEN [sending EXCEPT !.pc = "sendTransaction"]
          ELSE Returned(sending, "Failed to send tip. Please try again.", "",
                        FALSE)
    /\ UNCHANGED <<moduleVars, pageVars, codecVars, componentVars, lastUpload,
                   lastFetch, inFlight, shown, loading, supabase>>

\* the wallet's sendTransaction has settled (lines 234, 247-252): resolved
\* with a signature, or rejected
sendMessage_sendTransaction(signature) ==
    /\ sending.pc = "sendTransaction"
    /\ sending' =
          IF signature # ""
          THEN [sending EXCEPT !.pc = "confirmTransaction", !.txSig = signature]
          ELSE Returned(sending, "Failed to send tip. Please try again.", "",
                        FALSE)
    /\ UNCHANGED <<moduleVars, pageVars, codecVars, componentVars, lastUpload,
                   lastFetch, inFlight, shown, loading, supabase>>

\* connection.confirmTransaction has settled (lines 237-278)
sendMessage_confirmTransaction(outcome) ==
    LET s == [sending EXCEPT
                  !.transferred = outcome \in {"confirmed", "rejectedTransferred"}]
    IN  /\ sending.pc = "confirmTransaction"
        /\ IF outcome = "confirmed"
           THEN encryptThenUpload(s)
           ELSE /\ sending' =
                      Returned(s, "Failed to send tip. Please try again.", "",
                               FALSE)
                /\ UNCHANGED <<rngCount, sent>>
        /\ UNCHANGED <<now, keypairs, lastDecrypt, pageVars, codecVars,
                       componentVars, lastUpload, lastFetch, inFlight, shown,
                       loading, supabase>>

\* the row sendMessage passes to uploadMessage (lines 270-278)
RowOf(s) ==
    LET encrypted == CHOOSE data \in s.encrypted : TRUE
    IN  [senderAddress |-> s.senderAddress,
         recipientAddress |-> s.recipientAddress,
         ciphertext |-> encrypted.ciphertext,
         nonce |-> encrypted.nonce,
         ephemeralPublicKey |-> encrypted.ephemeralPublicKey]

\* sendMessage, had it no finally block
sendMessage_uploadMessage_noFinally(insertError) ==
    LET row == RowOf(sending)
        thrown == uploadMessage(row, insertError)
    IN  /\ sending.pc = "uploadMessage"
        /\ messages' = IF thrown = "" THEN messages \cup {row} ELSE messages
        /\ lastUpload' = {Upload(row, thrown)}
        /\ sending' =
              IF thrown = ""
              THEN Returned([sending EXCEPT !.stored = TRUE],
                            "Message sent successfully!", "", TRUE)
              ELSE IF sending.txSig # ""
              THEN Returned(sending,
                            "Tip was sent but failed to save message. Please contact support with this transaction ID: ",
                            sending.txSig, TRUE)
              ELSE Returned(sending,
                            "Failed to save message. Please try again.", "",
                            TRUE)
        /\ UNCHANGED <<moduleVars, codecVars, componentVars, publicKey,
                       deployerInfo, recipientKey, isDerivedKeyReady,
                       derivedInPage, lastFetch, inFlight, shown, loading,
                       supabase>>

\* uploadMessage has settled (lines 270-297)
sendMessage_uploadMessage(insertError) ==
    LET row == RowOf(sending)
        thrown == uploadMessage(row, insertError)
    IN  /\ sending.pc = "uploadMessage"
        /\ messages' = IF thrown = "" THEN messages \cup {row} ELSE messages
        /\ lastUpload' = {Upload(row, thrown)}
        /\ sending' =
              IF thrown = ""
              THEN Returned([sending EXCEPT !.stored = TRUE],
                            "Message sent successfully!", "", FALSE)
              ELSE IF sending.txSig # ""
              THEN Returned(sending,
                            "Tip was sent but failed to save message. Please contact support with this transaction ID: ",
                            sending.txSig, FALSE)
              ELSE Returned(sending,
                            "Failed to save message. Please try again.", "",
                            FALSE)
        /\ UNCHANGED <<moduleVars, codecVars, componentVars, publicKey,
                       deployerInfo, recipientKey, isDerivedKeyReady,
                       derivedInPage, lastFetch, inFlight, shown, loading,
                       supabase>>

\* the tip amounts typed into the form, as parseFloat reads them
TipAmounts == {0, 1}

NextSending ==
    \/ ConnectWallet("A2")
    \/ \E result \in TokenLookups : handleFindDeployer("T1", result)
    \/ handleDeriveRecipientKey
    \/ \E message \in SendMessages, withTip \in BOOLEAN, tipAmount \in TipAmounts :
           sendMessage_started(message, withTip, tipAmount)
    \/ \E outcome \in BalanceOutcomes : sendMessage_getBalance(outcome)
    \/ \E resolved \in BOOLEAN : sendMessage_getLatestBlockhash(resolved)
    \/ \E signature \in Signatures : sendMessage_sendTransaction(signature)
    \/ \E outcome \in ConfirmOutcomes : sendMessage_confirmTransaction(outcome)
    \/ \E insertError \in InsertErrors : sendMessage_uploadMessage(insertError)

SpecSending == Init /\ [][NextSending]_vars

\* each awaited call of sendMessage settles
SpecSendingFair ==
    /\ SpecSending
    /\ WF_vars(\E outcome \in BalanceOutcomes : sendMessage_getBalance(outcome))
    /\ WF_vars(\E resolved \in BOOLEAN : sendMessage_getLatestBlockhash(resolved))
    /\ WF_vars(\E signature \in Signatures : sendMessage_sendTransaction(signature))
    /\ WF_vars(\E outcome \in ConfirmOutcomes :
                   sendMessage_confirmTransaction(outcome))
    /\ WF_vars(\E insertError \in InsertErrors :
                   sendMessage_uploadMessage(insertError))

---------------------------------------------------------------------------
(* DecryptedMessage: one component for each message shown, each decrypting *)
(* on its own                                                               *)

\* the component mounts and its effect (WalletProvider.tsx lines 153-228)
\* calls decryptMessage, which asks the wallet to sign; requests are the
\* signing requests the call makes one after the other, the first of them
\* outstanding
DecryptedMessage_mounted(c, e, wallet) ==
    LET decryptedUint8Array == decryptMessage(e.data, wallet)
    IN  /\ decrypting[c].pc = "unmounted"
        /\ publicKey # "" /\ wallet.addr = publicKey
        /\ decrypting' =
              [decrypting EXCEPT ![c] =
                  [pc |-> IF decryptedUint8Array.signs = <<>> THEN "done"
                          ELSE "signing",
                   address |-> wallet.addr,
                   requests |-> decryptedUint8Array.signs,
                   ok |-> decryptedUint8Array.ok]]
        /\ UNCHANGED <<moduleVars, pageVars, codecVars, clientVars, recipientKeys,
                       keyDerivation, events, sendLog>>

\* the wallet has answered the request a component waits for; decryptMessage
\* goes on to its next request, or returns and the component shows the outcome
signMessage_answered(c) ==
    /\ decrypting[c].pc = "signing"
    /\ decrypting' =
          [decrypting EXCEPT ![c].requests = Tail(@),
                             ![c].pc = IF Len(decrypting[c].requests) = 1
                                       THEN "done" ELSE "signing"]
    /\ UNCHANGED <<moduleVars, pageVars, codecVars, clientVars, recipientKeys,
                   keyDerivation, events, sendLog>>

\* the signing requests the wallet of an address has not answered yet
Outstanding(addr) ==
    {<<"DecryptedMessage", c>> : c \in {c \in 1..MaxMounted :
          decrypting[c].pc = "signing" /\ decrypting[c].address = addr}}
        \cup (IF keyDerivation.pc = "signing" /\ keyDerivation.address = addr
              THEN {<<"KeyDerivation", keyDerivation.run>>} ELSE {})

\* the page of part_006 for the wallet of A1: its key is derived and published,
\* a message is encrypted to it, and the messages are shown
NextPrompts ==
    \/ ConnectWallet("A1")
    \/ \E wallet \in FailureWallets : deriveAndStoreKey_started(wallet)
    \/ deriveAndStoreKey_signed
    \/ \E storeError \in StoreErrors : deriveAndStoreKey_stored(storeError)
    \/ \E keyError \in LookupErrors, storeError \in StoreErrors :
           handleSendMessage("A1", VersionsMessage, keyError, storeError)
    \/ \E c \in 1..MaxMounted, e \in sent, wallet \in FailureWallets :
           DecryptedMessage_mounted(c, e, wallet)
    \/ \E c \in 1..MaxMounted : signMessage_answered(c)

SpecPrompts == Init /\ [][NextPrompts]_vars

---------------------------------------------------------------------------
(* The decoders at work on what a decryption returned *)

\* the characters the messages are drawn from: the ones JSON.stringify
\* escapes, the braces a record begins and ends with, one ASCII letter, one
\* character of two UTF-8 bytes and one half of a surrogate pair
TextAlphabet ==
    {Ch.quote, Ch.backslash, Ch.lbrace, Ch.rbrace, Ch.a, Ch.newline, Ch.eAcute,
     Ch.highSurrogate}

ShortTexts == UNION {[1..n -> TextAlphabet] : n \in 0..MaxTextLength}

\* the text of one member of an object, and of an object of members
MemberText(key, valueText) ==
    JSON_stringify_string(key) \o <<Ch.colon>> \o valueText

ObjectText(members) ==
    <<Ch.lbrace>>
        \o Flatten([k \in 1..Len(members) |->
                       (IF k > 1 THEN <<Ch.comma>> ELSE <<>>) \o members[k]])
        \o <<Ch.rbrace>>

\* messages that are JSON texts themselves: a versioned record, records that
\* miss the version or the string, the same members in the other order and with
\* white space, a name given twice, and values that are no object
JsonTexts ==
    LET v1 == MemberText(VersionKey, <<Ch.one>>)
        v2 == MemberText(VersionKey, <<Ch.two>>)
        vText == MemberText(VersionKey, JSON_stringify_string(<<Ch.two>>))
        data == MemberText(DataKey, JSON_stringify_string(<<Ch.a>>))
        dataNumber == MemberText(DataKey, <<Ch.two>>)
    IN  { messageToEncrypt(<<Ch.a>>),
          ObjectText(<<v1, data>>),
          ObjectText(<<vText, data>>),
          ObjectText(<<v2, dataNumber>>),
          ObjectText(<<data, v2>>),
          ObjectText(<<v1, v2, data>>),
          ObjectText(<<v2>>),
          ObjectText(<<data>>),
          ObjectText(<<>>),
          <<Ch.space>> \o ObjectText(<<v2, <<Ch.space>> \o data>>) \o <<Ch.newline>>,
          <<Ch.lbracket, Ch.two, Ch.rbracket>>,
          <<Ch.two>>,
          <<Ch.n, Ch.u, Ch.l, Ch.l>>,
          JSON_stringify_string(<<Ch.a>>) }

MessageTexts == ShortTexts \cup JsonTexts

\* bytes that are no UTF-8 text, of every length drawn
BinaryLengths == {1, 2, 3, 4, 24, 25, MaxBinaryLength}

BinaryPayloads ==
    {[i \in 1..n |-> 255] : n \in BinaryLengths}
        \cup {<<Ch.lbrace, 255, Ch.rbrace>>, <<Ch.a, 128>>, <<195>>}

\* what a decryption can hand to a decoder: the bytes encryptMessage made of
\* the message (it refuses the empty one), or the bytes of the message sent as
\* it is by an earlier version
PayloadsOf(message) ==
    {TextEncoder_encode_bytes(message)}
        \cup (IF message = <<>> THEN {} ELSE {messageBytes(message)})

\* or bytes that are no text
InitCodec ==
    /\ InitModule
    /\ plaintext \in MessageTexts
    /\ payload \in PayloadsOf(plaintext)
                    \cup (IF plaintext = <<>> THEN BinaryPayloads ELSE {})

\* one call of a decoder on the payload
Decoded(decoder, result) ==
    [decoder |-> decoder, input |-> payload, result |-> result]

Decode_handleDecrypt ==
    /\ decoded' = decoded \cup {Decoded("handleDecrypt", handleDecrypt(payload))}
    /\ UNCHANGED <<moduleVars, pageVars, componentVars, plaintext, payload, clientVars>>

Decode_handleDecryptPastedMessage ==
    /\ decoded' = decoded \cup {Decoded("handleDecryptPastedMessage",
                                        handleDecryptPastedMessage(payload))}
    /\ UNCHANGED <<moduleVars, pageVars, componentVars, plaintext, payload, clientVars>>

Decode_safelyDecodeBytes ==
    /\ decoded' = decoded \cup {Decoded("safelyDecodeBytes",
                                        safelyDecodeBytes(payload))}
    /\ UNCHANGED <<moduleVars, pageVars, componentVars, plaintext, payload, clientVars>>

NextCodec ==
    \/ Decode_handleDecrypt
    \/ Decode_handleDecryptPastedMessage
    \/ Decode_safelyDecodeBytes

SpecCodec == InitCodec /\ [][NextCodec]_vars

---------------------------------------------------------------------------
(* The framed payload on concrete bytes: safeEncodeUTF8 and tryDecodeMessage *)

MESSAGE_VERSION == 1

\* the byte that `<< 24` moves to the top of a 32-bit integer, read with the
\* sign it gets there
SignedByte(b) == IF b >= 128 THEN b - 256 ELSE b

\* safeEncodeUTF8(text) of lines 470-492: the version byte, the length of the
\* UTF-8 text in four bytes, the most significant first, and the UTF-8 text
safeEncodeUTF8_bytes(text) ==
    LET messageBytes_ == TextEncoder_encode_bytes(text)
        length == Len(messageBytes_)
        lengthBytes == <<(length \div 16777216) % 256, (length \div 65536) % 256,
                         (length \div 256) % 256, length % 256>>
    IN  <<MESSAGE_VERSION>> \o lengthBytes \o messageBytes_

\* extractMessage(data) of lines 498-514; data[k] of the code is data[k + 1]
\* here, and a byte past the end is undefined, 0 to the bit operators
extractMessage(data) ==
    LET At(k) == IF k <= Len(data) THEN data[k] ELSE 0
        length == SignedByte(At(2)) * 16777216 + At(3) * 65536 + At(4) * 256
                      + At(5)
    IN  IF data = <<>> \/ data[1] # MESSAGE_VERSION
        THEN [ok |-> FALSE, err |-> "Invalid message version", bytes |-> <<>>]
        ELSE IF length <= 0 \/ length > Len(data) - 5
        THEN [ok |-> FALSE, err |-> "Invalid message length", bytes |-> <<>>]
        ELSE [ok |-> TRUE, err |-> "", bytes |-> SubSeq(data, 6, 5 + length)]

\* new TextDecoder('utf-8', {fatal: false}).decode(bytes) from byte i on: a
\* byte sequence that is not well-formed is replaced, as far as it is the
\* beginning of a well-formed one, by one U+FFFD
RECURSIVE DecodeReplacingFrom(_, _, _)
DecodeReplacingFrom(bytes, i, acc) ==
    IF i > Len(bytes) THEN acc
    ELSE LET b == bytes[i]
             In(k, lo, hi) == k <= Len(bytes) /\ bytes[k] >= lo /\ bytes[k] < hi
             Cont(k) == In(k, 128, 192)
             Low(k) == bytes[k] - 128
             Second ==
                 In(i + 1,
                    IF b = 224 THEN 160 ELSE IF b = 240 THEN 144 ELSE 128,
                    IF b = 237 THEN 160 ELSE IF b = 244 THEN 144 ELSE 192)
             Replaced(n) ==
                 DecodeReplacingFrom(bytes, i + n, Append(acc, Ch.replacement))
         IN  IF b < 128
             THEN DecodeReplacingFrom(bytes, i + 1, Append(acc, b))
             ELSE IF b >= 194 /\ b < 224
             THEN IF Cont(i + 1)
                  THEN DecodeReplacingFrom(bytes, i + 2,
                                           Append(acc, (b - 192) * 64 + Low(i + 1)))
                  ELSE Replaced(1)
             ELSE IF b >= 224 /\ b < 240
             THEN IF ~Second THEN Replaced(1)
                  ELSE IF ~Cont(i + 2) THEN Replaced(2)
                  ELSE DecodeReplacingFrom(bytes, i + 3,
                                           Append(acc, (b - 224) * 4096
                                                           + Low(i + 1) * 64
                                                           + Low(i + 2)))
             ELSE IF b >= 240 /\ b < 245
             THEN IF ~Second THEN Replaced(1)
                  ELSE IF ~Cont(i + 2) THEN Replaced(2)
                  ELSE IF ~Cont(i + 3) THEN Replaced(3)
                  ELSE DecodeReplacingFrom(bytes, i + 4,
                                           acc \o CodeUnits((b - 240) * 262144
                                                                + Low(i + 1) * 4096
                                                                + Low(i + 2) * 64
                                                                + Low(i + 3)))
             ELSE Replaced(1)

\* the decoder drops a byte order mark at the head of the text
TextDecoder_decode(bytes) ==
    LET text == DecodeReplacingFrom(bytes, 1, <<>>)
    IN  IF text # <<>> /\ Head(text) = Ch.byteOrderMark THEN Tail(text) ELSE text

\* the white space and line terminators String.prototype.trim removes
TrimmedCodeUnits ==
    {9, 10, 11, 12, 13, 32, 160, 5760, 8232, 8233, 8239, 8287, 12288, 65279}
        \cup 8192..8202

\* text.trim()
RECURSIVE trim(_)
trim(text) ==
    IF text = <<>> THEN text
    ELSE IF Head(text) \in TrimmedCodeUnits THEN trim(Tail(text))
    ELSE IF text[Len(text)] \in TrimmedCodeUnits
    THEN trim(SubSeq(text, 1, Len(text) - 1))
    ELSE text

\* bytesToHex(bytes) of lines 440-444
RECURSIVE bytesToHex(_)
bytesToHex(bytes) ==
    IF bytes = <<>> THEN <<>>
    ELSE <<HexDigit(Head(bytes) \div 16), HexDigit(Head(bytes) % 16)>>
             \o bytesToHex(Tail(bytes))

\* tryDecodeMessage(bytes) of lines 494-543: the framed text; else the bytes
\* decoded with replacement and trimmed, when that is not empty; else
\* `[Encrypted data: ${hexString}]`, its hex digits under hex
tryDecodeMessage_bytes(bytes) ==
    LET messageContent == extractMessage(bytes)
        text == TextDecoder_decode_fatal(messageContent.bytes)
        fallback == trim(TextDecoder_decode(bytes))
    IN  IF messageContent.ok /\ text.ok THEN DecodedText(text.text)
        ELSE IF fallback # <<>> THEN DecodedText(fallback)
        ELSE [label |-> "[Encrypted data: ]", text |-> <<>>, base64 |-> <<>>,
              hex |-> bytesToHex(bytes)]

\* a message text is drawn and framed
InitFramed ==
    /\ InitModule
    /\ plaintext \in MessageTexts
    /\ payload = <<>>

Encode_safeEncodeUTF8 ==
    /\ payload = <<>>
    /\ payload' = safeEncodeUTF8_bytes(plaintext)
    /\ UNCHANGED <<moduleVars, pageVars, componentVars, plaintext, decoded,
                   clientVars>>

Decode_tryDecodeMessage ==
    /\ payload # <<>>
    /\ decoded' = decoded \cup {Decoded("tryDecodeMessage",
                                        tryDecodeMessage_bytes(payload))}
    /\ UNCHANGED <<moduleVars, pageVars, componentVars, plaintext, payload,
                   clientVars>>

NextFramed ==
    \/ Encode_safeEncodeUTF8
    \/ Decode_tryDecodeMessage

SpecFramed == InitFramed /\ [][NextFramed]_vars

---------------------------------------------------------------------------
(* Claims about the encryption module in use *)

\* the call lastDecrypt was made by a wallet that signs, and deterministically
SignsDeterministically(wallet) ==
    /\ wallet.hasPublicKey /\ wallet.hasSignMessage /\ ~wallet.rejects
    /\ wallet.addr \notin Randomized

\* C1: round trip. For every plaintext P and every wallet W whose signMessage
\* is deterministic, with K = deriveKeypairFromWallet(W),
\* decryptMessage(encryptMessage(P, base58(K.publicKey)), W) succeeds and the
\* payload unwrapped from the returned bytes is P.
C1_RoundTrip ==
    \A c \in lastDecrypt :
        ( /\ c.version = "current"
          /\ c.how = "none"
          /\ SignsDeterministically(c.wallet)
          /\ c.of.recipientKey =
                toBase58(deriveKeypairFromWallet(c.wallet).keypair.publicKey) )
        => /\ c.result.ok
           /\ UnwrapPayload(c.result.bytes) = [ok |-> TRUE, data |-> c.of.message]


C8_NoReuse ==
    /\ \A e1, e2 \in sent :
           e1 # e2 => /\ e1.data.nonce # e2.data.nonce
                      /\ e1.data.ephemeralPublicKey # e2.data.ephemeralPublicKey
    /\ \A e \in sent :
           /\ e.data.nonce.b64.id > e.drawnBefore
           /\ \E k \in (e.drawnBefore + 1)..rngCount :
                  e.data.ephemeralPublicKey.b64 = box_keyPair(k).publicKey

\* two calls with the same plaintext and the same recipient key have returned
C8_Witness ==
    \E e1, e2 \in sent :
        /\ e1 # e2
        /\ e1.message = e2.message
        /\ e1.recipientKey = e2.recipientKey

\* what C9 requires of an envelope before any decrypt attempt
EnvelopeChecksPass(data) ==
    /\ ~IsEmptyString(data.ciphertext) /\ ~IsEmptyString(data.nonce)
    /\ ~IsEmptyString(data.ephemeralPublicKey)
    /\ fromBase64(data.nonce).bytes.len = nonceLength
    /\ fromBase64(data.ephemeralPublicKey).bytes.len = publicKeyLength
    /\ fromBase64(data.ciphertext).bytes.len > overheadLength

\* C9: before every decrypt attempt decryptMessage checks that the three fields
\* are present, the nonce is 24 bytes, the ephemeral public key 32 bytes and the
\* ciphertext longer than the 16-byte tag; an envelope failing a check is
\* rejected as an invalid envelope and no decryption is attempted on it.
C9_ValidatedBeforeDecrypt ==
    \A c \in lastDecrypt :
        (c.version = "current" /\ ~EnvelopeChecksPass(CallData(c)))
        => /\ ~c.result.ok
           /\ c.result.err = validateEncryptedData(CallData(c))
           /\ c.result.err # ""
           /\ c.result.opens = 0

\* C10: one call of decryptMessage makes one key derivation and one
\* authenticated-decryption attempt; when it fails authentication the call fails
\* at once, with no other key, challenge wording or derivation format tried.
C10_SingleAttempt ==
    \A c \in lastDecrypt :
        c.version = "current"
        => /\ Len(c.result.signs) <= 1
           /\ c.result.derivations <= 1
           /\ c.result.opens <= 1

---------------------------------------------------------------------------
(* Claims about the versions side by side *)

\* the wallet is the one a derivation of which gave the key
WalletOfKey(wallet, key) ==
    \E i \in 1..Len(keypairs) :
        /\ keypairs[i].addr = wallet.addr
        /\ toBase58(keypairs[i].publicKey) = key

\* C2: tamper detection. For every envelope E returned by encryptMessage for a
\* recipient key K and every E' that differs from E in ciphertext, nonce or
\* ephemeralPublicKey, decryptMessage(E', wallet of K) fails with an error: it
\* returns neither bytes nor a decoded string.
C2_TamperDetected ==
    \A c \in lastDecrypt :
        (c.how \in BitFlips /\ WalletOfKey(c.wallet, c.of.recipientKey))
        => /\ ~c.result.ok
           /\ c.result.err # ""
           /\ c.result.bytes = EmptyBytes
           /\ c.result.text = ""

\* base58 of the public key the wallet of a call derives with the call's version
DerivedPublicKeyBase58(c) ==
    IF c.version = "part008"
    THEN toBase58(deriveKeypairFromWallet_part008(c.wallet).keypair.publicKey)
    ELSE toBase58(deriveKeypairFromWallet(c.wallet).keypair.publicKey)

\* C3: key-mismatch detection. Decrypting an envelope encrypted for public key A
\* with a wallet whose derived public key is B, A # B, fails: with a key-mismatch
\* error that names both keys, before any decryption attempt, when the expected
\* public key is supplied, and with a decryption failure when it is not. In
\* neither case is a message returned.
C3_KeyMismatchDetected ==
    \A c \in lastDecrypt :
        ( /\ c.version \in {"current", "part008"}
          /\ c.how = "none"
          /\ DerivedPublicKeyBase58(c) # c.of.recipientKey )
        => /\ ~c.result.ok
           /\ c.result.bytes = EmptyBytes
           /\ IF c.expected # EmptyBase58
              THEN /\ c.result.err = KeyMismatch
                   /\ c.result.names = {c.of.recipientKey, DerivedPublicKeyBase58(c)}
                   /\ c.result.opens = 0
              ELSE c.result.err \in {DecryptionFailed, AllFailed}

---------------------------------------------------------------------------
(* Claims about the challenges *)

\* C7: the challenge passed to the signer is a function of the wallet address
\* only and holds no timestamp or nonce: two derivations or decryptions for the
\* same address, made at different times by the same function, ask for
\* signatures over byte-identical challenges.
C7_ChallengeFixed ==
    \A i, j \in 1..Len(keypairs) :
        ( /\ keypairs[i].version = keypairs[j].version
          /\ keypairs[i].addr = keypairs[j].addr )
        => keypairs[i].signs = keypairs[j].signs

---------------------------------------------------------------------------
(* Claims about the page *)

\* C4: sender and receiver derive the same key. For every deployer address A
\* the recipient key handleDeriveRecipientKey computes for A is the public key
\* deriveKeypairFromWallet returns for the wallet owning A, so every message
\* sendMessage encrypts and stores for A is decrypted by decryptMessage run with
\* A's wallet.
C4_SameKeyBothSides ==
    /\ (isDerivedKeyReady /\ deployerInfo.address \in Addrs \ Randomized)
       => recipientKey =
              toBase58(deriveKeypairFromWallet(
                           Wallet(deployerInfo.address, "signs", 1)).keypair.publicKey)
    /\ \A c \in lastDecrypt : \A row \in messages :
           ( /\ RowData(row) = c.of.data
             /\ c.how = "none"
             /\ c.wallet.addr = row.recipientAddress
             /\ SignsDeterministically(c.wallet) )
           => /\ c.result.ok
              /\ UnwrapPayload(c.result.bytes) = [ok |-> TRUE, data |-> c.of.message]

\* the challenges the versions of the module ask the wallet of addr to sign
ChallengesOf(addr) ==
    {TextEncoder_encode(DeriveChallenge(addr)),
     TextEncoder_encode(DecryptChallenge(addr))}
        \cup {TextEncoder_encode(ChallengeText(FallbackPrefixes[i], addr, NoTime)) :
                  i \in 1..Len(FallbackPrefixes)}

\* the seeds that take a signature of the wallet of addr to compute
SeedsFromWalletSignature(addr) ==
    {sha512_32(signMessage(w, m).sig) :
         w \in {x \in SigningWallets : x.addr = addr}, m \in ChallengesOf(addr)}

\* C5: only the recipient's wallet can decrypt. The secret key behind the key an
\* envelope stored for address A is encrypted for takes a signature of A's wallet
\* to compute; a party that holds only public data, as the sender's page does,
\* computes no such secret key and opens no envelope sent to A.
C5_OnlyRecipientWallet ==
    /\ \A row \in messages : \A e \in sent :
           e.data = RowData(row)
           => fromBase58(e.recipientKey).of
                  \in SeedsFromWalletSignature(row.recipientAddress)
    /\ \A e \in sent : \A k \in derivedInPage :
           /\ toBase58(k.publicKey) # e.recipientKey
           /\ OpenWith(e.data, k.secretKey).status # "bytes"

---------------------------------------------------------------------------
(* Claims about failures *)

\* the wallet of a call signs when asked
Signs(wallet) == wallet.hasPublicKey /\ wallet.hasSignMessage /\ ~wallet.rejects

\* signing, envelope validation or authenticated decryption fails inside the call
FailsInside(c) ==
    \/ ~Signs(c.wallet)
    \/ ~EnvelopeChecksPass(CallData(c))
    \/ c.how \in BitFlips

\* C11: no core function turns a failure into an ordinary return value. Whenever
\* signing, envelope validation or authenticated decryption fails inside
\* decryptMessage, the caller gets an explicit error (a throw or a rejection),
\* never a string, null or a placeholder standing in for a message.
C11_FailuresAreExplicit ==
    \A c \in lastDecrypt :
        FailsInside(c)
        => /\ ~c.result.ok
           /\ c.result.err # ""
           /\ c.result.text = ""
           /\ ~c.result.returnsNull

\* what a caller reads as "the signer refused or cannot sign"
SigningUnavailable ==
    {"Wallet does not support required methods", "User rejected the request",
     "Wallet does not support message signing",
     "Failed to sign message with wallet"}

\* C12: when the signer refuses or cannot sign (wallet.signMessage rejects or
\* is missing), deriveKeypairFromWallet and decryptMessage fail with an error
\* that reports the signing failure, distinguishable from a key mismatch and
\* from a decryption failure, and produce no key pair and no message.
C12_SigningFailureReported ==
    /\ \A wallet \in Wallets :
           ~Signs(wallet)
           => /\ ~deriveKeypairFromWallet(wallet).ok
              /\ deriveKeypairFromWallet(wallet).err \in SigningUnavailable
              /\ deriveKeypairFromWallet(wallet).keypair = NoKeypair
    /\ \A c \in lastDecrypt :
           (c.version = "current" /\ ~Signs(c.wallet))
           => /\ ~c.result.ok
              /\ c.result.bytes = EmptyBytes
              /\ c.result.err \in SigningUnavailable
              /\ c.result.err \notin {KeyMismatch, DecryptionFailed, AllFailed}

\* C13: when the signer returns a signature shorter than the minimum required
\* length (an empty one included), key derivation fails with a malformed-
\* signature error and no key pair is derived from it.
C13_ShortSignatureRejected ==
    \A i \in 1..Len(keypairs) : keypairs[i].sigLength >= minSignatureLength

---------------------------------------------------------------------------
(* Claims about encryptMessage *)

\* C14: encryptMessage checks that the decoded recipient public key is exactly
\* 32 bytes and fails otherwise; a call with a key of any other length produces
\* no ephemeral key, no nonce (it draws no random bytes) and no envelope.
C14_KeyLengthCheckedFirst ==
    [][\A message \in Messages, key \in WrongLengthKeys :
           (Encrypt(message, key) \/ Encrypt_boxAfter(message, key))
           => (rngCount' = rngCount /\ sent' = sent)]_vars

---------------------------------------------------------------------------
(* Claims about the decoding of decrypted bytes *)

\* the calls of the two handlers that show a decrypted message
HandlerCalls ==
    {d \in decoded : d.decoder \in {"handleDecrypt", "handleDecryptPastedMessage"}}

\* C15: the bytes encryptMessage makes of a message M, the UTF-8 encoding of
\* JSON.stringify({v: 2, data: M}), decode to exactly M in both handlers,
\* whatever M holds: quotes, backslashes, braces, a JSON text, a lone surrogate
C15_VersionedRecordUnwrapped ==
    \A d \in HandlerCalls :
        (plaintext # <<>> /\ d.input = messageBytes(plaintext))
            => d.result = DecodedText(plaintext)

\* a handler has decoded the record of a message that is itself the text of a
\* versioned record, or of one that holds a quote and a backslash
C15_Witness ==
    /\ plaintext \in {messageToEncrypt(<<Ch.a>>), <<Ch.quote, Ch.backslash>>}
    /\ \E d \in HandlerCalls :
           /\ d.input = messageBytes(plaintext)
           /\ d.result = DecodedText(plaintext)

\* the bytes are a UTF-8 text that is no versioned record
IsLegacyText(bytes) ==
    LET text == TextDecoder_decode_fatal(bytes)
        parsed == JSON_parse(text.text)
    IN  text.ok /\ ~(parsed.ok /\ IsVersionedRecord(parsed.value))

\* C16: bytes that are valid UTF-8 but no versioned record (no JSON, a JSON
\* value that is no object, an object without v = 2 or without a string data)
\* are returned as the decoded text, unchanged, by every decoder (stated for
\* the bytes of a text that is not empty)
C16_LegacyTextUnchanged ==
    \A d \in decoded :
        (d.input # <<>> /\ IsLegacyText(d.input)) =>
            d.result = DecodedText(TextDecoder_decode_fatal(d.input).text)

\* the sum of the two cuts of safelyDecodeBytes: the longest preview a decoder
\* of the module makes
PreviewLimit == base64PreviewLength + hexPreviewLength

\* C17: bytes that are no UTF-8 text make a decoder return a labelled preview
\* whose length does not grow with the input
C17_BinaryPreviewBounded ==
    \A d \in decoded :
        ~TextDecoder_decode_fatal(d.input).ok =>
            /\ d.result.label # ""
            /\ d.result.text = <<>>
            /\ Len(d.result.base64) + Len(d.result.hex) <= PreviewLimit

---------------------------------------------------------------------------
(* Claims about the key registry *)

\* C18: a send operation that calls encryptMessage has looked the recipient's
\* key up before, and encrypts to the key the lookup returned; a lookup that
\* ends in an error or finds no record leaves nothing encrypted, nothing stored
C18_LookupBeforeEncrypt ==
    \A s \in sendLog :
        /\ s.encrypted => (s.lookup = "found" /\ s.encryptedTo = s.lookedUp)
        /\ s.lookup \in {"error", "missing"} => (~s.encrypted /\ ~s.stored)

\* the places in events where run n did op
RunEvents(n, op) ==
    {i \in 1..Len(events) : events[i].run = n /\ events[i].op = op}

\* C19: a run of deriveAndStoreKey whose derivation succeeds calls
\* upsertRecipientKey exactly once, after deriveKeypairFromWallet resolved, with
\* the wallet's address and the key derived from its signature; a run whose
\* signing fails never calls it; and the run sets derivedPublicKey and
\* hasExistingKey and calls onKeyDerived only after the upsert returned
\* without error
C19_UpsertOncePerDerivation ==
    \A n \in 1..keyDerivation.run :
        LET puts == RunEvents(n, "upsertRecipientKey")
            resolved == RunEvents(n, "deriveKeypairFromWallet resolved")
            rejected == RunEvents(n, "deriveKeypairFromWallet rejected")
            returned == RunEvents(n, "upsertRecipientKey returned")
            updates == RunEvents(n, "setDerivedPublicKey")
                           \cup RunEvents(n, "setHasExistingKey")
                           \cup RunEvents(n, "onKeyDerived")
        IN  /\ Cardinality(puts) <= 1
            /\ resolved # {} =>
                   /\ Cardinality(puts) = 1
                   /\ \A i \in puts, j \in resolved : j < i
                   /\ \A i \in puts :
                          /\ events[i].address = events[i].wallet.addr
                          /\ events[i].key =
                                 toBase58(deriveKeypairFromWallet(
                                              events[i].wallet).keypair.publicKey)
            /\ rejected # {} => puts = {}
            /\ \A i \in updates :
                   /\ \E j \in returned : j < i
                   /\ RunEvents(n, "upsertRecipientKey failed") = {}

\* one run has published its key and told the page, and another has ended
\* without publishing: the wallet refused to sign, or the upsert failed
C19_Witness ==
    /\ keyDerivation.pc = "idle"
    /\ \E n \in 1..keyDerivation.run :
           /\ RunEvents(n, "onKeyDerived") # {}
           /\ \E i \in RunEvents(n, "upsertRecipientKey") :
                  [wallet_address |-> events[i].address,
                   derived_pubkey |-> events[i].key] \in recipientKeys
    /\ \E n \in 1..keyDerivation.run :
           \/ RunEvents(n, "deriveKeypairFromWallet rejected") # {}
           \/ RunEvents(n, "upsertRecipientKey failed") # {}

---------------------------------------------------------------------------
(* Claims about signing requests *)

\* C20: at every moment a wallet has at most one signing request it has not
\* answered: the run of deriveAndStoreKey and the decryptMessage calls of the
\* mounted DecryptedMessage components never wait for it at the same time
C20_OneOutstandingRequest ==
    \A addr \in Addrs : Cardinality(Outstanding(addr)) <= 1

---------------------------------------------------------------------------
(* Claims about text that is no base64 *)

\* the three fields of an envelope are padded base64 text
IsBase64Envelope(data) ==
    /\ data.ciphertext.wellFormed /\ data.nonce.wellFormed
    /\ data.ephemeralPublicKey.wellFormed

\* what a caller reads as "this is no base64 text"
EncodingErrors ==
    {"invalid encoding"}
        \cup {field \o problem :
                 field \in {"Ciphertext", "Nonce", "Ephemeral public key"},
                 problem \in {" contains invalid base64 characters",
                              " has invalid length for base64"}}

\* C21: an envelope in which ciphertext, nonce or ephemeralPublicKey is not
\* valid padded base64 is rejected with an encoding error before it is decoded
\* (decryptMessage) or stored (uploadMessage): no signing request is issued for
\* it, no decryption is attempted on it and no row is inserted for it.
C21_MisencodedRejectedFirst ==
    /\ \A c \in lastDecrypt :
           (c.version = "current" /\ ~IsBase64Envelope(CallData(c)))
           => /\ ~c.result.ok
              /\ c.result.err \in EncodingErrors
              /\ c.result.signs = <<>>
              /\ c.result.opens = 0
    /\ \A u \in lastUpload :
           ~IsBase64Envelope(u.message)
           => (u.thrown \in EncodingErrors /\ ~u.inserted)
    /\ \A row \in messages : IsBase64Envelope(row)

---------------------------------------------------------------------------
(* Claims about the table of messages *)

\* C22: the message store is append-only. Whatever uploadMessage and
\* fetchMessagesForDeployer calls are made, every stored message stays stored
\* with the field values it was inserted with: no step takes a row away or
\* changes one.
C22_AppendOnly == [][messages \subseteq messages']_vars

\* two messages for one recipient are stored, the later uploads and fetches
\* have left them there: the last upload was refused, the last fetch returned
\* the rows of the recipient
C22_Witness ==
    /\ \E r1, r2 \in messages :
           r1 # r2 /\ r1.recipientAddress = r2.recipientAddress
    /\ \E u \in lastUpload : ~u.inserted
    /\ \E f \in lastFetch :
           /\ f.result.thrown = ""
           /\ Cardinality(f.result.data) >= 2
           /\ f.result.data \subseteq messages

---------------------------------------------------------------------------
(* Claims about the methods of decryptMessage *)

\* the challenges decryptMessage has signed, in the order of its methods
MethodChallenges(addr) ==
    <<TextEncoder_encode(DeriveChallenge(addr))>>
        \o [i \in 1..Len(FallbackPrefixes) |->
               TextEncoder_encode(ChallengeText(FallbackPrefixes[i], addr, NoTime))]

\* what the k-th method alone makes of the envelope
MethodAlone(encryptedData, wallet, k) ==
    IF k = 1 THEN Method1(encryptedData, wallet)
    ELSE FallbackMethod(encryptedData, wallet, k - 1)

\* the methods whose authenticated open of the envelope succeeds
Succeeding(encryptedData, wallet) ==
    {k \in 1..Len(MethodChallenges(wallet.addr)) :
         MethodAlone(encryptedData, wallet, k).status = "bytes"}

\* C23: decryptMessage tries its derivations in a fixed order: the
\* DM_DEV_DERIVE_KEY Ed25519 key, the DM_DEV_DECRYPT box key, then the three
\* legacy challenges in list order. It returns the bytes of the first method
\* whose authenticated open succeeds and asks for no signature after it, it
\* asks for at most 5 signatures, and it throws 'All decryption methods
\* failed' exactly when no method succeeded.
C23_MethodsInOrder ==
    \A c \in lastDecrypt :
        c.version = "current" =>
            LET order == MethodChallenges(c.wallet.addr)
                succeeding == Succeeding(CallData(c), c.wallet)
                first == CHOOSE k \in succeeding : \A j \in succeeding : k <= j
            IN  /\ Len(c.result.signs) <= Len(order)
                /\ \E asked \in SUBSET (1..Len(order)) :
                       /\ Cardinality(asked) = Len(c.result.signs)
                       /\ \A k \in asked :
                              c.result.signs[Cardinality({j \in asked : j <= k})]
                                  = order[k]
                /\ c.result.ok <=> succeeding # {}
                /\ c.result.ok =>
                       /\ c.result.bytes = MethodAlone(CallData(c), c.wallet, first).bytes
                       /\ c.result.signs = SubSeq(order, 1, first)
                /\ ~c.result.ok <=> c.result.err = AllFailed

---------------------------------------------------------------------------
(* Claims about the lookups of the page *)

\* the key handleDeriveRecipientKey derives for a deployer address
RecipientKeyOf(deployerAddress) ==
    toBase58(deriveKeypairFromWallet(
                 MockDeployerWallet(deployerAddress)).keypair.publicKey)

\* C24: whenever sendMessage encrypts, the recipientKey it uses was derived
\* from the deployer address it stores as recipientAddress: no interleaving
\* of handleFindDeployer with handleDeriveRecipientKey leaves
\* isDerivedKeyReady true while recipientKey was derived for another address
\* than deployerInfo.address.
C24_KeyOfShownDeployer ==
    /\ isDerivedKeyReady => recipientKey = RecipientKeyOf(deployerInfo.address)
    /\ \A s \in sendLog :
           (s.handler = "sendMessage" /\ s.encrypted)
           => s.encryptedTo = RecipientKeyOf(s.recipientAddress)

\* C25: when a run of sendMessage has returned, a tip was transferred by its
\* transaction and the message was not stored, the alert shown to the user
\* holds the transaction id of the tip
C25_TipReported ==
    (sending.pc = "idle" /\ sending.transferred /\ ~sending.stored)
        => (sending.txSig # "" /\ sending.alertTxSig = sending.txSig)

\* C28: a run of sendMessage that has ended has left isSending false, and,
\* each awaited call settling, isSending set to true by a run is set back to
\* false
C28_IsSendingReset ==
    /\ [](sending.pc = "idle" => ~sending.isSending)
    /\ (sending.isSending ~> ~sending.isSending)

\* a run that sent a tip has ended in the catch of the upload, where only the
\* finally block sets isSending, and isSending is false
C28_Witness ==
    /\ sending.pc = "idle"
    /\ sending.message # ""
    /\ sending.alertTxSig # ""
    /\ ~sending.isSending

\* C26: once every call of decryptMessage it started has settled, a mounted
\* DecryptedMessage component renders the outcome of the call made for its
\* current encryptedData and wallet
C26_ShowsCurrentProps ==
    (shown.pc = "mounted" /\ shown.pending = {})
        => Rendered(shown.output, shown.error)
              = Rendered(handleDecrypt_outcome(shown.encryptedData,
                                               shown.wallet).output,
                         handleDecrypt_outcome(shown.encryptedData,
                                               shown.wallet).error)

\* C27: a fetchMessagesForDeployer response that arrives when the page is
\* unmounted or the key is no longer the one it was requested for changes
\* neither messages nor decryptedMessages, and the step in which the key of
\* the mounted page becomes null leaves both empty
C27_StaleResponseIgnored ==
    [][/\ \A call \in loading.pending \ loading'.pending :
              (/\ publicKey' = publicKey /\ loading'.pc = loading.pc
               /\ (call.key # publicKey \/ loading.pc = "unmounted"))
                  => /\ loading'.messages = loading.messages
                     /\ loading'.decryptedMessages = loading.decryptedMessages
       /\ (loading.pc = "mounted" /\ loading'.pc = "mounted"
              /\ publicKey # "" /\ publicKey' = "")
           => /\ loading'.messages = {}
              /\ loading'.decryptedMessages = {}]_vars

\* the page shows the messages of A1 with one of them decrypted, and the call
\* that settled last was made for A2, found rows and succeeded
C27_Witness ==
    /\ loading.pc = "mounted"
    /\ publicKey = "A1"
    /\ loading.decryptedMessages # {}
    /\ \E l \in loading.last :
           /\ l.call.key = "A2"
           /\ l.result.thrown = ""
           /\ l.result.data # {}
           /\ l.result.data # loading.messages

\* C29: framed round trip. For every message text t, the empty one included,
\* tryDecodeMessage(safeEncodeUTF8(t)) returns exactly t.
C29_FramedRoundTrip ==
    \A d \in decoded :
        (d.decoder = "tryDecodeMessage" /\ d.input = safeEncodeUTF8_bytes(plaintext))
            => d.result = DecodedText(plaintext)

\* C30: at most one database client has been created, a call of
\* getSupabaseClient that succeeds returns that one instance, and with the URL
\* or the key unset the call throws and the cached instance stays null
C30_OneClient ==
    /\ supabase.created <= 1
    /\ \A l \in supabase.last :
           l.thrown = ""
               => /\ l.returned # {}
                  /\ l.returned = supabase.supabaseInstance
                  /\ \A client \in l.returned : client.n = 1
    /\ (supabase.loaded /\ (supabase.supabaseUrl = "" \/ supabase.supabaseKey = ""))
           => /\ supabase.supabaseInstance = {}
              /\ \A l \in supabase.last : l.thrown = SupabaseNotSet

\* a call has returned the instance an earlier call created and cached
C30_Witness ==
    /\ supabase.created = 1
    /\ \E l \in supabase.last : l.thrown = "" /\ l.cached

\* with the key unset a call has thrown
C30_WitnessUnset ==
    /\ supabase.loaded /\ supabase.supabaseKey = ""
    /\ \E l \in supabase.last : l.thrown = SupabaseNotSet

===========================================================================
